---- MODULE Spec2Model ----
(***************************************************************************)
(* A model of the EDH deck validator's card catalog (CardDatabase over     *)
(* SQLite) and of the card importer (importCardsFromJson and               *)
(* streamJsonImport).                                                      *)
(*                                                                         *)
(* Strings on which the code computes (card names, type lines) are         *)
(* sequences of one-character strings, so that LOWER(), toLowerCase() and  *)
(* includes() are computed and not assumed.  A JavaScript object is a      *)
(* record whose absent fields are undefined/null; a table row is a record  *)
(* whose absent columns are NULL.                                          *)
(***************************************************************************)
EXTENDS Integers, Sequences, FiniteSets, TLC

\* ------------------------------------------------------------------ bounds

\* Most rows the cards table holds (NULL-named rows never conflict, so the
\* table is unbounded in the code).
MaxRows == 3

\* Longest array handed to insertCardsBatch.
MaxBatch == 2

\* Most records in the file an import run reads.
MaxSource == 3

\* The most names in the card counts of a deck.
MaxDeck == 2

\* The number of lines of a free-form deck text is at most MaxLines.
MaxLines == 2

\* ----------------------------------------------------------------- strings

UpperChars == <<"A","B","C","D","E","F","G","H","I","J","K","L","M",
                "N","O","P","Q","R","S","T","U","V","W","X","Y","Z">>

LowerChars == <<"a","b","c","d","e","f","g","h","i","j","k","l","m",
                "n","o","p","q","r","s","t","u","v","w","x","y","z">>

LowerChar(c) ==
    IF \E i \in 1..Len(UpperChars) : UpperChars[i] = c
    THEN LowerChars[CHOOSE i \in 1..Len(UpperChars) : UpperChars[i] = c]
    ELSE c

\* String.prototype.toLowerCase
toLowerCase(s) == [i \in 1..Len(s) |-> LowerChar(s[i])]

\* SQLite's LOWER(): folds the ASCII letters
LOWER(s) == [i \in 1..Len(s) |-> LowerChar(s[i])]

\* String.prototype.includes
includes(s, sub) ==
    \E i \in 0..(Len(s) - Len(sub)) : SubSeq(s, i + 1, i + Len(sub)) = sub

\* ------------------------------------------------------------ JS objects

\* o.f is neither undefined nor null
Has(o, f) == f \in DOMAIN o

\* !o.f for a string field: undefined, null and '' are falsy
Falsy(o, f) == ~Has(o, f) \/ o[f] = <<>>

\* JSON.stringify of an array or object, and JSON.parse of such a text
JSONstringify(v) == <<"JSON">> \o v

JSONparse(text) == Tail(text)

\* ------------------------------------------------------------ CardDatabase

VARIABLES
    db,         \* CardDatabase.db: "null", "open" or "failed" (a handle whose open failed)
    schema,     \* whether the cards table exists, as this connection sees it
    cards,      \* the cards table as this connection sees it, in rowid order
    committed,  \* the cards table as committed to the file
    schemaCommitted, \* whether the committed file holds the cards table
    inTx,       \* a BEGIN TRANSACTION of this connection has not been committed
    last,       \* the last call on the CardDatabase and how its promise settled
    \* importCardsFromJson and streamJsonImport
    pc,         \* where the import run is
    source,     \* the array of records in the JSON file
    fileSize,   \* stats.size, in bytes
    resolvedWith, \* <<imported, skipped>> as streamJsonImport resolved with them (<<>>: it has not)
    next,       \* the number of the next record of the array to be handled
    imported,   \* the run's imported counter
    skipped,    \* the run's skipped counter
    paused,     \* the stream pipeline is paused (not flowing)
    pending,    \* the records whose 'data' handler awaits db.insertCard
    filtered,   \* the records the run's filter skipped
    failedWrites, \* the records whose insertCard was rejected
    thrown,     \* the error the run's try block threw ("none" if none)
    top,        \* what the text of the JSON file is at its top level
    finished,   \* the runs of importCardsFromJson that have ended, in order
    \* the rules of EDH_RULES and validateEdHDeck
    cardCounts, \* the card counts of the deck: <<name, count>> in insertion order
    cardDb,     \* whether the rule is handed a CardDatabase
    rule,       \* the id of the rule that was checked last ("none": none yet)
    violations, \* the violations it returned
    outcome,    \* how it ended: "returned", or the error it was rejected with
    deckList,   \* the text of the deck handed to validateEdHDeck, character by character
    deckLength, \* totalCards of validateEdHDeck: deck.length of the parsed deck
    isValid,    \* isValid of the result, once validateEdHDeck has returned
    isPauper,   \* the third argument handed to the check of a rule
    \* addDeckCards
    added       \* the added counter of addDeckCards

storeVars == <<db, schema, cards, committed, schemaCommitted, inTx>>

importVars == <<pc, source, fileSize, resolvedWith, next, imported, skipped, paused, pending,
                filtered, failedWrites, thrown, top, finished>>

deckVars == <<deckList, deckLength, isValid, isPauper, added>>

ruleVars == <<cardCounts, cardDb, rule, violations, outcome,
              deckList, deckLength, isValid, isPauper, added>>

vars == <<db, schema, cards, committed, schemaCommitted, inTx, last,
          pc, source, fileSize, resolvedWith, next, imported, skipped, paused, pending,
          filtered, failedWrites, thrown, top, finished,
          cardCounts, cardDb, rule, violations, outcome,
          deckList, deckLength, isValid, isPauper, added>>

\* The front face's image, used when the card has no image_uris of its own:
\* the set holding the value bound to the image_uris column (empty for NULL).
imageUris(card) ==
    IF Has(card, "image_uris") THEN {card.image_uris}
    ELSE IF Has(card, "card_faces") /\ Len(card.card_faces) > 0
              /\ Has(card.card_faces[1], "image_uris")
         THEN {card.card_faces[1].image_uris}
         ELSE {}

\* The `values` array of insertCard as a row; an undefined value binds NULL.
insertCardValues(card) ==
    LET img  == imageUris(card)
        cols == {"type_line", "colors", "color_identity", "rarity", "legalities"}
                    \cup (IF Has(card, "name") THEN {"name"} ELSE {})
                    \cup (IF Has(card, "mana_cost") THEN {"mana_cost"} ELSE {})
                    \cup (IF Has(card, "cmc") THEN {"cmc"} ELSE {})
                    \cup (IF img # {} THEN {"image_uris"} ELSE {})
                    \cup (IF Has(card, "card_faces") THEN {"card_faces"} ELSE {})
    IN [c \in cols |->
          CASE c = "name" -> card.name
            [] c = "type_line" -> IF Falsy(card, "type_line") THEN <<>> ELSE card.type_line
            [] c = "colors" ->
                 JSONstringify(IF Has(card, "colors") THEN card.colors ELSE <<>>)
            [] c = "color_identity" ->
                 JSONstringify(IF Has(card, "color_identity") THEN card.color_identity ELSE <<>>)
            [] c = "rarity" -> IF Has(card, "rarity") THEN card.rarity ELSE ""
            [] c = "legalities" ->
                 JSONstringify(IF Has(card, "legalities") THEN card.legalities ELSE <<>>)
            [] c = "mana_cost" -> card.mana_cost
            [] c = "cmc" -> card.cmc
            [] c = "image_uris" -> JSONstringify(CHOOSE u \in img : TRUE)
            [] c = "card_faces" -> JSONstringify(card.card_faces)]

\* The `values` array of insertCardsBatch: nine columns, no card_faces and no
\* front-face image.
insertCardsBatchValues(card) ==
    LET cols == {"type_line", "colors", "color_identity", "rarity", "legalities"}
                    \cup (IF Has(card, "name") THEN {"name"} ELSE {})
                    \cup (IF Has(card, "mana_cost") THEN {"mana_cost"} ELSE {})
                    \cup (IF Has(card, "cmc") THEN {"cmc"} ELSE {})
                    \cup (IF Has(card, "image_uris") THEN {"image_uris"} ELSE {})
    IN [c \in cols |->
          CASE c = "name" -> card.name
            [] c = "type_line" -> IF Falsy(card, "type_line") THEN <<>> ELSE card.type_line
            [] c = "colors" ->
                 JSONstringify(IF Has(card, "colors") THEN card.colors ELSE <<>>)
            [] c = "color_identity" ->
                 JSONstringify(IF Has(card, "color_identity") THEN card.color_identity ELSE <<>>)
            [] c = "rarity" -> IF Has(card, "rarity") THEN card.rarity ELSE ""
            [] c = "legalities" ->
                 JSONstringify(IF Has(card, "legalities") THEN card.legalities ELSE <<>>)
            [] c = "mana_cost" -> card.mana_cost
            [] c = "cmc" -> card.cmc
            [] c = "image_uris" -> JSONstringify(card.image_uris)]

\* name TEXT PRIMARY KEY: the rows that conflict with `row` are those whose
\* name is the same text, compared byte by byte (the column has no collation);
\* a NULL name conflicts with nothing.
Conflicts(row, other) ==
    Has(row, "name") /\ Has(other, "name") /\ other.name = row.name

\* INSERT into a table whose name column is no key: nothing is replaced.
InsertOrReplace_keyless(table, row) == Append(table, row)

\* INSERT OR REPLACE INTO cards: the conflicting rows are deleted and the new
\* row gets the next rowid.
InsertOrReplace(table, row) ==
    LET Kept(r) == ~Conflicts(row, r)
    IN Append(SelectSeq(table, Kept), row)

\* SELECT * FROM cards WHERE LOWER(name) = LOWER(?), as db.get runs it: the
\* first matching row of the table scan, or none.
SelectByName(table, name) ==
    LET Matches(r) == Has(r, "name") /\ LOWER(r.name) = LOWER(name)
    IN SelectSeq(table, Matches)

\* The EdHCard that getCard builds from a row.
rowToCard(row) ==
    LET fields == {"type_line", "colors", "color_identity", "rarity", "legalities"}
                    \cup (DOMAIN row \cap {"name", "mana_cost", "cmc"})
                    \cup (IF Has(row, "image_uris") THEN {"image_uris"} ELSE {})
                    \cup (IF Has(row, "card_faces") THEN {"card_faces"} ELSE {})
    IN [f \in fields |->
          CASE f \in {"colors", "color_identity", "legalities",
                      "image_uris", "card_faces"} -> JSONparse(row[f])
            [] OTHER -> row[f]]

\* --------------------------------------------------------- the card values

Opt     == <<"O","p","t">>
optLow  == <<"o","p","t">>
OptUp   == <<"O","P","T">>
Ox      == <<"O","x">>

Instant == <<"I","n","s","t","a","n","t">>
Sorcery == <<"S","o","r","c","e","r","y">>

\* A single-faced card with every field set.
CardOpt ==
    [name |-> Opt, type_line |-> Instant, colors |-> <<"U">>,
     color_identity |-> <<"U">>, rarity |-> "common",
     legalities |-> << <<"commander", "legal">> >>,
     mana_cost |-> "{U}", cmc |-> 1,
     image_uris |-> << <<"normal", "opt.jpg">> >>]

\* The same name in lower case, another card text, no optional field.
CardOptLower ==
    [name |-> optLow, type_line |-> Sorcery, colors |-> <<>>,
     color_identity |-> <<>>, rarity |-> "rare",
     legalities |-> << <<"commander", "banned">> >>]

\* A double-faced card: faces with their own images, no image_uris.
CardOx ==
    [name |-> Ox, type_line |-> Instant, colors |-> <<"G">>,
     color_identity |-> <<"G">>, rarity |-> "uncommon",
     legalities |-> << <<"commander", "legal">> >>,
     card_faces |-> << [name |-> Ox, image_uris |-> << <<"normal", "front.jpg">> >>],
                       [name |-> Opt] >>]

\* Records that miss a required field.
CardNoType ==
    [name |-> Opt, colors |-> <<>>, color_identity |-> <<>>, rarity |-> "common",
     legalities |-> <<>>]

CardEmptyName ==
    [name |-> <<>>, type_line |-> Instant, colors |-> <<>>, color_identity |-> <<>>,
     rarity |-> "common", legalities |-> <<>>]

CardNoName ==
    [type_line |-> Instant, colors |-> <<>>, color_identity |-> <<>>,
     rarity |-> "common", legalities |-> <<>>]

\* The cards the catalog's callers pass in, and the names they look up.
StoreCards == {CardOpt, CardOptLower, CardOx, CardNoType, CardNoName}

StoreNames == {Opt, optLow, OptUp, Ox}

\* ------------------------------------------------- the CardDatabase methods

\* How a call settled.  `card` holds the cards passed, `name` the name looked
\* up, `value` the card resolved by getCard (empty for null), `count` the
\* number resolved by getCardCount, `fault` what the database engine did and
\* `failed` the number of the batch statement it failed (0: none).
Settled(op, cardArgs, nameArg, fault, result, value, count) ==
    [op |-> op, card |-> cardArgs, name |-> nameArg, fault |-> fault,
     failed |-> 0, result |-> result, value |-> value, count |-> count]

NoName == <<>>

\* if (!this.db) throw new Error('Database not connected')
NotConnected(op, cardArgs, nameArg) ==
    /\ db = "null"
    /\ last' = Settled(op, cardArgs, nameArg, "none", "not connected", <<>>, 0)
    /\ UNCHANGED storeVars

\* The callback got an err: the handle never opened, the table is missing, or
\* the engine failed the statement.
Usable == db = "open" /\ schema

connect(err) ==
    /\ db' = IF err THEN "failed" ELSE "open"
    \* a new handle sees what is committed
    /\ cards' = committed
    /\ schema' = schemaCommitted
    /\ inTx' = FALSE
    /\ UNCHANGED <<committed, schemaCommitted>>
    /\ last' = Settled("connect", <<>>, NoName, IF err THEN "err" ELSE "none",
                       IF err THEN "error" ELSE "resolved", <<>>, 0)

\* initializeSchema on a handle: db.exec of CREATE TABLE IF NOT EXISTS.
initializeSchemaRun(err) ==
    /\ db # "null"
    /\ IF db = "open" /\ ~err
       THEN /\ schema' = TRUE
            /\ schemaCommitted' = (IF inTx THEN schemaCommitted ELSE TRUE)
            /\ last' = Settled("initializeSchema", <<>>, NoName, "none",
                               "resolved", <<>>, 0)
       ELSE /\ UNCHANGED <<schema, schemaCommitted>>
            /\ last' = Settled("initializeSchema", <<>>, NoName, "err",
                               "error", <<>>, 0)
    /\ UNCHANGED <<db, cards, committed, inTx>>

initializeSchema(err) ==
    \/ NotConnected("initializeSchema", <<>>, NoName)
    \/ initializeSchemaRun(err)

\* What getCard resolves on `table`: the card of the first row that db.get
\* finds, in a sequence that is empty for null.
getCardValue(table, name) ==
    LET rows == SelectByName(table, name)
    IN IF rows = <<>> THEN <<>> ELSE <<rowToCard(Head(rows))>>

getCard(name, err) ==
    \/ NotConnected("getCard", <<>>, name)
    \/ /\ db # "null"
       /\ IF Usable /\ ~err
          THEN last' = Settled("getCard", <<>>, name, "none", "resolved",
                              getCardValue(cards, name), 0)
          ELSE last' = Settled("getCard", <<>>, name, "err", "error", <<>>, 0)
       /\ UNCHANGED storeVars

\* insertCard on a handle: db.run of the INSERT OR REPLACE and its callback.
insertCardRun(card, err) ==
    /\ db # "null"
    /\ IF Usable /\ ~err
       THEN /\ cards' = InsertOrReplace(cards, insertCardValues(card))
            /\ committed' = (IF inTx THEN committed ELSE cards')
            /\ last' = Settled("insertCard", <<card>>, NoName, "none",
                               "resolved", <<>>, 0)
       ELSE /\ UNCHANGED <<cards, committed>>
            /\ last' = Settled("insertCard", <<card>>, NoName, "err",
                               "error", <<>>, 0)
    /\ UNCHANGED <<db, schema, schemaCommitted, inTx>>

insertCard(card, err) ==
    \/ NotConnected("insertCard", <<card>>, NoName)
    \/ insertCardRun(card, err)

RECURSIVE RunStatements(_, _, _, _)
\* for (const card of cards) stmt.run(values): statement i of the batch, then
\* the following ones.  stmt.run has no callback, so a statement that the
\* engine fails (number `failed`) changes nothing and is not reported.
RunStatements(table, batch, i, failed) ==
    IF i > Len(batch) THEN table
    ELSE RunStatements(
             IF i = failed THEN table
             ELSE InsertOrReplace(table, insertCardsBatchValues(batch[i])),
             batch, i + 1, failed)

\* `failed` is the number of the statement the engine fails (0: none);
\* `commit` is what COMMIT does: "ok", "busy" (it fails and the transaction
\* stays open) or "rollback" (it fails and the engine rolls back).
\* BEGIN TRANSACTION, prepare and stmt.run are given no callback: when one of
\* them fails, the library emits an 'error' event that has no listener here,
\* and `unhandled` is what the process then does: "crash" (the default: the
\* uncaught exception ends it, the open transaction is never committed, and
\* the promise never settles) or "ignored" (the host handles uncaught
\* exceptions and the remaining statements run).
insertCardsBatch(batch, failed, commit, unhandled) ==
    \/ NotConnected("insertCardsBatch", batch, NoName)
    \/ /\ db = "failed"
       /\ last' = Settled("insertCardsBatch", batch, NoName, "err", "error", <<>>, 0)
       /\ UNCHANGED storeVars
    \/ /\ db = "open"
       /\ LET errorEvent == inTx \/ ~schema \/ failed # 0
              written == IF schema THEN RunStatements(cards, batch, 1, failed)
                         ELSE cards
              fault   == IF ~schema THEN "no table"
                         ELSE IF failed # 0 THEN "statement"
                         ELSE IF inTx THEN "begin"
                         ELSE "none"
              call(f, result) ==
                  [Settled("insertCardsBatch", batch, NoName, f, result, <<>>, 0)
                      EXCEPT !.failed = IF schema THEN failed ELSE 0]
          IN /\ ~errorEvent => unhandled = "ignored"
             /\ ~schema => failed = 0
             /\ IF unhandled = "crash"
                THEN /\ db' = "null"
                     /\ cards' = committed
                     /\ schema' = schemaCommitted
                     /\ inTx' = FALSE
                     /\ UNCHANGED <<committed, schemaCommitted>>
                     /\ last' = call(fault, "crashed")
                ELSE /\ UNCHANGED db
                     /\ CASE commit = "ok" ->
                               /\ cards' = written
                               /\ committed' = written
                               /\ schemaCommitted' = schema
                               /\ inTx' = FALSE
                               /\ schema' = schema
                               /\ last' = call(fault, "resolved")
                          [] commit = "busy" ->
                               /\ cards' = written
                               /\ inTx' = TRUE
                               /\ UNCHANGED <<committed, schema, schemaCommitted>>
                               /\ last' = call(commit, "error")
                          [] commit = "rollback" ->
                               /\ cards' = committed
                               /\ schema' = schemaCommitted
                               /\ inTx' = FALSE
                               /\ UNCHANGED <<committed, schemaCommitted>>
                               /\ last' = call(commit, "error")

\* close() that resolves without forgetting the handle (this.db = null left out).
close_keepsHandle(err) ==
    \/ /\ db = "null"
       /\ last' = Settled("close", <<>>, NoName, "none", "resolved", <<>>, 0)
       /\ UNCHANGED storeVars
    \/ /\ db # "null"
       /\ IF db = "open" /\ ~err
          THEN /\ UNCHANGED db
               /\ cards' = committed
               /\ schema' = schemaCommitted
               /\ inTx' = FALSE
               /\ last' = Settled("close", <<>>, NoName, "none", "resolved", <<>>, 0)
          ELSE /\ UNCHANGED <<db, cards, schema, inTx>>
               /\ last' = Settled("close", <<>>, NoName, "err", "error", <<>>, 0)
       /\ UNCHANGED <<committed, schemaCommitted>>

\* close on a handle: db.close and its callback.
closeRun(err) ==
    /\ db # "null"
    /\ IF db = "open" /\ ~err
       THEN /\ db' = "null"
            \* closing rolls back a transaction left open
            /\ cards' = committed
            /\ schema' = schemaCommitted
            /\ inTx' = FALSE
            /\ last' = Settled("close", <<>>, NoName, "none", "resolved", <<>>, 0)
       ELSE /\ UNCHANGED <<db, cards, schema, inTx>>
            /\ last' = Settled("close", <<>>, NoName, "err", "error", <<>>, 0)
    /\ UNCHANGED <<committed, schemaCommitted>>

close(err) ==
    \/ /\ db = "null"
       /\ last' = Settled("close", <<>>, NoName, "none", "resolved", <<>>, 0)
       /\ UNCHANGED storeVars
    \/ closeRun(err)

getCardCount(err) ==
    \/ NotConnected("getCardCount", <<>>, NoName)
    \/ /\ db # "null"
       /\ IF Usable /\ ~err
          THEN last' = Settled("getCardCount", <<>>, NoName, "none", "resolved",
                               <<>>, Len(cards))
          ELSE last' = Settled("getCardCount", <<>>, NoName, "err", "error", <<>>, 0)
       /\ UNCHANGED storeVars

\* ---------------------------------------------- the catalog and its callers

RECURSIVE SeqsUpTo(_, _)
\* The sequences over S of length at most n.
SeqsUpTo(S, n) ==
    IF n = 0 THEN {<<>>}
    ELSE LET shorter == SeqsUpTo(S, n - 1)
         IN shorter \cup {Append(q, x) : q \in shorter, x \in S}

\* A new CardDatabase on a database file that does not exist yet; no import runs.
StoreInit ==
    /\ db = "null"
    /\ schema = FALSE
    /\ schemaCommitted = FALSE
    /\ cards = <<>>
    /\ committed = <<>>
    /\ inTx = FALSE
    /\ last = Settled("new", <<>>, NoName, "none", "resolved", <<>>, 0)
    /\ pc = "idle"
    /\ source = <<>>
    /\ fileSize = 0
    /\ resolvedWith = <<>>
    /\ next = 1
    /\ imported = 0
    /\ skipped = 0
    /\ paused = FALSE
    /\ pending = {}
    /\ filtered = {}
    /\ failedWrites = {}
    /\ thrown = "none"
    /\ top = "array"
    /\ finished = <<>>
    /\ cardCounts = <<>>
    /\ cardDb = FALSE
    /\ rule = "none"
    /\ violations = <<>>
    /\ outcome = "none"
    /\ deckList = <<>>
    /\ deckLength = 0
    /\ isValid = FALSE
    /\ isPauper = FALSE
    /\ added = 0

Connect == (\E err \in BOOLEAN : connect(err)) /\ UNCHANGED <<importVars, ruleVars>>

InitializeSchema ==
    (\E err \in BOOLEAN : initializeSchema(err)) /\ UNCHANGED <<importVars, ruleVars>>

GetCard ==
    (\E name \in StoreNames, err \in BOOLEAN : getCard(name, err))
        /\ UNCHANGED <<importVars, ruleVars>>

InsertCard ==
    /\ \E card \in StoreCards, err \in BOOLEAN :
          insertCard(card, err) /\ Len(cards') <= MaxRows
    /\ UNCHANGED <<importVars, ruleVars>>

\* The arrays the callers of SpecStore hand to insertCardsBatch.
StoreBatches == {<<CardOptLower>>, <<CardOpt, CardOx>>}

\* In SpecStore the engine fails no statement of a batch (SpecBatch has those).
StoreInsertCardsBatch ==
    /\ \E batch \in StoreBatches :
          insertCardsBatch(batch, 0, "ok", "ignored") /\ Len(cards') <= MaxRows
    /\ UNCHANGED <<importVars, ruleVars>>

Close == (\E err \in BOOLEAN : close(err)) /\ UNCHANGED <<importVars, ruleVars>>

GetCardCount == (\E err \in BOOLEAN : getCardCount(err)) /\ UNCHANGED <<importVars, ruleVars>>

StoreNext ==
    \/ Connect
    \/ InitializeSchema
    \/ GetCard
    \/ InsertCard
    \/ StoreInsertCardsBatch
    \/ Close
    \/ GetCardCount

\* Any sequence of calls on one CardDatabase, the engine failing any of them.
SpecStore == StoreInit /\ [][StoreNext]_vars

\* The arrays handed to insertCardsBatch.
BatchCards == {CardOpt, CardOptLower, CardOx}

InsertCardsBatch ==
    /\ \E batch \in SeqsUpTo(BatchCards, MaxBatch) :
          \E failed \in 0..Len(batch), commit \in {"ok", "busy", "rollback"},
             unhandled \in {"ignored", "crash"} :
              /\ insertCardsBatch(batch, failed, commit, unhandled)
              /\ Len(cards') <= MaxRows
    /\ UNCHANGED <<importVars, ruleVars>>

BatchGetCard ==
    (\E name \in StoreNames : getCard(name, FALSE)) /\ UNCHANGED <<importVars, ruleVars>>

BatchNext ==
    \/ Connect
    \/ InitializeSchema
    \/ InsertCardsBatch
    \/ BatchGetCard
    \/ Close

\* Any sequence of batch writes and lookups on one CardDatabase, the engine
\* failing any statement of a batch or its COMMIT.
SpecBatch == StoreInit /\ [][BatchNext]_vars

\* ------------------------------------------------------------ the importer

Token   == <<"t","o","k","e","n">>
ArtCard == <<"a","r","t"," ","c","a","r","d">>
Emblem  == <<"e","m","b","l","e","m">>

\* if (!card.name || !card.type_line): the filter of both strategies
missingRequired(card) == Falsy(card, "name") \/ Falsy(card, "type_line")

\* Skip tokens, art cards, and other non-playable cards (streamJsonImport)
nonPlayable(card) ==
    LET typeLine == toLowerCase(card.type_line)
    IN includes(typeLine, Token) \/ includes(typeLine, ArtCard)
           \/ includes(typeLine, Emblem)

\* The records streamJsonImport skips before writing.
streamSkips(card) == missingRequired(card) \/ nonPlayable(card)

\* The records the loop of importCardsFromJson skips before writing.
loadAllSkips(card) == missingRequired(card)

\* fileSizeMB > 100, with fileSizeMB = stats.size / (1024 * 1024)
SizeLimit == 100 * 1024 * 1024

useStreaming(size) == size > SizeLimit

\* await db.connect(), the first statement of the try block
importConnect(err) ==
    /\ pc = "start"
    /\ connect(err)
    /\ pc' = IF err THEN "finally" ELSE "schema"
    /\ thrown' = IF err THEN "connect" ELSE "none"
    /\ UNCHANGED <<source, fileSize, resolvedWith, next, imported, skipped, paused, pending,
                   filtered, failedWrites>>

\* await db.initializeSchema()
importInitializeSchema(err) ==
    /\ pc = "schema"
    /\ initializeSchemaRun(err)
    /\ pc' = IF err THEN "finally" ELSE "stat"
    /\ thrown' = IF err THEN "initializeSchema" ELSE "none"
    /\ UNCHANGED <<source, fileSize, resolvedWith, next, imported, skipped, paused, pending,
                   filtered, failedWrites>>

\* fs.statSync and the choice of the strategy; the load-all branch reads and
\* parses the whole file, the other sets the stream pipeline up, flowing.
\* In the load-all branch JSON.parse throws on a text that is no JSON, and
\* for (const card of cards) throws on a value that is not iterable (an
\* object, a number); a string is iterable, character by character.
importChoose ==
    /\ pc = "stat"
    /\ pc' = IF useStreaming(fileSize) THEN "stream"
             ELSE IF top \in {"invalid", "object", "number"} THEN "finally"
             ELSE "loop"
    /\ thrown' = IF useStreaming(fileSize) THEN "none"
                 ELSE IF top = "invalid" THEN "JSON.parse"
                 ELSE IF top \in {"object", "number"} THEN "not iterable"
                 ELSE "none"
    /\ next' = 1
    /\ imported' = 0
    /\ skipped' = 0
    /\ paused' = FALSE
    /\ UNCHANGED <<source, fileSize, resolvedWith, pending, filtered, failedWrites>>
    /\ UNCHANGED <<storeVars, last>>

\* The loop without its try/catch: a rejected insertCard ends the loop.
loadAllRecord_abortsOnError(err) ==
    /\ pc = "loop"
    /\ next <= Len(source)
    /\ IF loadAllSkips(source[next])
       THEN /\ ~err
            /\ skipped' = skipped + 1
            /\ filtered' = filtered \cup {next}
            /\ UNCHANGED <<pc, thrown, imported, failedWrites, storeVars, last>>
       ELSE /\ insertCardRun(source[next], err)
            /\ imported' = IF err THEN imported ELSE imported + 1
            /\ pc' = IF err THEN "finally" ELSE pc
            /\ thrown' = IF err THEN "insertCard" ELSE thrown
            /\ failedWrites' = IF err THEN failedWrites \cup {next} ELSE failedWrites
            /\ UNCHANGED <<skipped, filtered>>
    /\ next' = next + 1
    /\ UNCHANGED <<source, fileSize, resolvedWith, paused, pending>>

\* One iteration of for (const card of cards): the filter, then
\* await db.insertCard(card), whose rejection is caught and counted.
loadAllRecord(err) ==
    /\ pc = "loop"
    /\ next <= Len(source)
    /\ IF loadAllSkips(source[next])
       THEN /\ ~err
            /\ skipped' = skipped + 1
            /\ filtered' = filtered \cup {next}
            /\ UNCHANGED <<imported, failedWrites, storeVars, last>>
       ELSE /\ insertCardRun(source[next], err)
            /\ imported' = IF err THEN imported ELSE imported + 1
            /\ skipped' = IF err THEN skipped + 1 ELSE skipped
            /\ failedWrites' = IF err THEN failedWrites \cup {next} ELSE failedWrites
            /\ UNCHANGED filtered
    /\ next' = next + 1
    /\ UNCHANGED <<pc, source, fileSize, resolvedWith, paused, pending, thrown>>

\* The loop is over: the counters are logged and the finally block runs.
loadAllDone ==
    /\ pc = "loop"
    /\ next > Len(source)
    /\ pc' = "finally"
    /\ UNCHANGED <<source, fileSize, resolvedWith, next, imported, skipped, paused, pending,
                   filtered, failedWrites, thrown>>
    /\ UNCHANGED <<storeVars, last>>

\* The 'data' handler without its pipeline.pause().
streamData_noPause ==
    /\ IF streamSkips(source[next])
       THEN /\ skipped' = skipped + 1
            /\ filtered' = filtered \cup {next}
            /\ paused' = FALSE
            /\ UNCHANGED pending
       ELSE /\ pending' = pending \cup {next}
            /\ UNCHANGED <<paused, skipped, filtered>>
    /\ next' = next + 1

\* The 'data' handler of streamJsonImport for record `next`, up to its await:
\* pipeline.pause(), then the filter (skipped++, pipeline.resume(), return)
\* or the call of db.insertCard.
streamData ==
    /\ IF streamSkips(source[next])
       THEN /\ skipped' = skipped + 1
            /\ filtered' = filtered \cup {next}
            /\ paused' = FALSE
            /\ UNCHANGED pending
       ELSE /\ pending' = pending \cup {next}
            /\ paused' = TRUE
            /\ UNCHANGED <<skipped, filtered>>
    /\ next' = next + 1

\* The stream emits 'data' for the next record: only while it is flowing.
streamEmitData ==
    /\ pc = "stream"
    /\ top = "array"
    /\ ~paused
    /\ next <= Len(source)
    /\ streamData
    /\ UNCHANGED <<pc, source, fileSize, resolvedWith, imported, failedWrites, thrown>>
    /\ UNCHANGED <<storeVars, last>>

\* The rest of the 'data' handler of record i, its insertCard having settled:
\* imported++ and pipeline.resume(), or the catch block: skipped++ and
\* pipeline.resume().
streamWriteSettled(i, err) ==
    /\ i \in pending
    /\ insertCardRun(source[i], err)
    /\ imported' = IF err THEN imported ELSE imported + 1
    /\ skipped' = IF err THEN skipped + 1 ELSE skipped
    /\ failedWrites' = IF err THEN failedWrites \cup {i} ELSE failedWrites
    /\ pending' = pending \ {i}
    /\ paused' = FALSE
    /\ UNCHANGED <<pc, source, fileSize, resolvedWith, next, filtered, thrown>>

\* The stream emits 'end' with nothing left to emit: the promise of
\* streamJsonImport resolves with the counters as they are, and the finally
\* block of importCardsFromJson calls db.close().  pause() holds back 'data',
\* not 'end': a stream that is flowing emits 'end' once the source has
\* ended; a stream that the handler of its last record has paused emits it
\* all the same when that record came out of the buffer after the source had
\* ended (Readable.read schedules 'end' as it hands the last buffered record
\* out), as a record after the first one may, and then the insertCard of
\* that record is still in flight.
streamEnd ==
    /\ pc = "stream"
    /\ top = "array"
    /\ next > Len(source)
    /\ ~paused \/ Len(source) >= 2
    /\ pc' = "finally"
    /\ resolvedWith' = <<imported, skipped>>
    /\ UNCHANGED <<source, fileSize, next, imported, skipped, paused, pending,
                   filtered, failedWrites, thrown>>
    /\ UNCHANGED <<storeVars, last>>

\* The file is not an array.  When its first token opens no array, StreamArray
\* fails with 'Top-level object should be an array.': the pipeline emits
\* 'error' and the promise of streamJsonImport is rejected.  When the text is
\* no JSON at all, it is parser() that emits 'error'; pipe() forwards no
\* error and the parser has no listener, so `unhandled` is what the process
\* does with the uncaught exception: "crash" (the default: it ends) or
\* "ignored" (the host handles it; the pipeline emits neither 'end' nor
\* 'error', and the promise never settles).
streamError(unhandled) ==
    /\ pc = "stream"
    /\ top # "array"
    /\ IF top = "invalid"
       THEN /\ pc' = IF unhandled = "crash" THEN "crashed" ELSE "hung"
            /\ db' = IF unhandled = "crash" THEN "null" ELSE db
            /\ UNCHANGED thrown
       ELSE /\ unhandled = "ignored"
            /\ pc' = "finally"
            /\ thrown' = "stream"
            /\ UNCHANGED db
    /\ UNCHANGED <<schema, cards, committed, schemaCommitted, inTx, last>>
    /\ UNCHANGED <<source, fileSize, resolvedWith, next, imported, skipped, paused, pending,
                   filtered, failedWrites>>

\* finally { await db.close() } has called close() and close() settles, which
\* it does after the statements in flight: the run ends, rejected with the
\* error of close() or else with the one the try block threw.
importClose(err) ==
    /\ pc = "finally"
    /\ pending = {}
    /\ closeRun(err)
    /\ pc' = "done"
    /\ UNCHANGED <<source, fileSize, resolvedWith, next, imported, skipped, paused, pending,
                   filtered, failedWrites, thrown>>

\* The run's promise resolved: the try block threw nothing and the close()
\* of the finally block, the last call on the store, was not rejected.
Resolved == pc = "done" /\ thrown = "none" /\ last.result = "resolved"

\* --------------------------------------------------------- the import runs

TokenCreature == <<"T","o","k","e","n"," ","C","r","e","a","t","u","r","e">>
LegendaryCreature ==
    <<"L","e","g","e","n","d","a","r","y"," ","C","r","e","a","t","u","r","e">>
ArtCardType == <<"C","a","r","d"," ","/","/"," ","A","r","t"," ","C","a","r","d">>
EmblemType == <<"E","m","b","l","e","m">>

Elf  == <<"E","l","f">>
Art  == <<"A","r","t">>
Liege == <<"L","i","e","g","e">>

\* The records of the source file, as Scryfall has them.
SrcToken ==
    [name |-> Elf, type_line |-> TokenCreature, colors |-> <<"G">>,
     color_identity |-> <<"G">>, rarity |-> "common", legalities |-> <<>>]

SrcArtCard ==
    [name |-> Art, type_line |-> ArtCardType, colors |-> <<>>,
     color_identity |-> <<>>, rarity |-> "common", legalities |-> <<>>]

SrcEmblem ==
    [name |-> Liege, type_line |-> EmblemType, colors |-> <<>>,
     color_identity |-> <<>>, rarity |-> "common", legalities |-> <<>>]

SrcLegend ==
    [name |-> Ox, type_line |-> LegendaryCreature, colors |-> <<"G">>,
     color_identity |-> <<"G">>, rarity |-> "mythic",
     legalities |-> << <<"commander", "legal">> >>, mana_cost |-> "{G}", cmc |-> 1]

SourceCards ==
    {CardNoType, CardEmptyName, SrcToken, SrcArtCard, SrcEmblem, SrcLegend, CardOpt,
     CardOptLower}

\* What the text of a file can be: an array, a string, an object, a number,
\* or no JSON.
Tops == {"array", "string", "object", "number", "invalid"}

\* The characters of a top-level string: values without name and type_line.
CharA == [char |-> "a"]
CharB == [char |-> "b"]

\* What iterating over the parsed text gives, where it can be iterated.
Sources(t) ==
    IF t = "array" THEN SeqsUpTo(SourceCards, MaxSource)
    ELSE IF t = "string" THEN {<<>>, <<CharA>>, <<CharA, CharB>>}
    ELSE {<<>>}

\* File sizes below, at and above the limit.
FileSizes == {SizeLimit - 1, SizeLimit, SizeLimit + 1}

\* importCardsFromJson is called on a file of some records and some size,
\* with a new CardDatabase on a database file that does not exist yet.
ImportInit ==
    /\ db = "null"
    /\ schema = FALSE
    /\ schemaCommitted = FALSE
    /\ cards = <<>>
    /\ committed = <<>>
    /\ inTx = FALSE
    /\ last = Settled("new", <<>>, NoName, "none", "resolved", <<>>, 0)
    /\ pc = "start"
    /\ top \in Tops
    /\ source \in Sources(top)
    /\ finished = <<>>
    /\ fileSize \in FileSizes
    /\ resolvedWith = <<>>
    /\ next = 1
    /\ imported = 0
    /\ skipped = 0
    /\ paused = FALSE
    /\ pending = {}
    /\ filtered = {}
    /\ failedWrites = {}
    /\ thrown = "none"
    /\ cardCounts = <<>>
    /\ cardDb = FALSE
    /\ rule = "none"
    /\ violations = <<>>
    /\ outcome = "none"
    /\ deckList = <<>>
    /\ deckLength = 0
    /\ isValid = FALSE
    /\ isPauper = FALSE
    /\ added = 0

ImportConnect ==
    (\E err \in BOOLEAN : importConnect(err)) /\ UNCHANGED <<top, finished, ruleVars>>

ImportInitializeSchema ==
    (\E err \in BOOLEAN : importInitializeSchema(err)) /\ UNCHANGED <<top, finished, ruleVars>>

ImportChoose == importChoose /\ UNCHANGED <<top, finished, ruleVars>>

LoadAllRecord ==
    (\E err \in BOOLEAN : loadAllRecord(err)) /\ UNCHANGED <<top, finished, ruleVars>>

LoadAllDone == loadAllDone /\ UNCHANGED <<top, finished, ruleVars>>

StreamEmitData == streamEmitData /\ UNCHANGED <<top, finished, ruleVars>>

StreamWriteSettled ==
    (\E i \in pending, err \in BOOLEAN : streamWriteSettled(i, err))
        /\ UNCHANGED <<top, finished, ruleVars>>

StreamEnd == streamEnd /\ UNCHANGED <<top, finished, ruleVars>>

StreamError ==
    (\E unhandled \in {"ignored", "crash"} : streamError(unhandled))
        /\ UNCHANGED <<top, finished, ruleVars>>

\* The run ends; what it left in the file is recorded, and whether it
\* resolved without a failed write.
ImportClose ==
    /\ \E err \in BOOLEAN : importClose(err)
    /\ finished' = Append(finished, [catalog |-> committed',
                                     clean |-> Resolved' /\ failedWrites' = {}])
    /\ UNCHANGED <<top, ruleVars>>

\* importCardsFromJson is called again on the same file, once, after a run
\* that resolved without a failed write: a new CardDatabase on the database
\* file as the first run left it.
ImportAgain ==
    /\ pc = "done"
    /\ Len(finished) = 1
    /\ finished[1].clean
    /\ pc' = "start"
    /\ db' = "null"
    /\ cards' = committed
    /\ schema' = schemaCommitted
    /\ inTx' = FALSE
    /\ last' = Settled("new", <<>>, NoName, "none", "resolved", <<>>, 0)
    /\ next' = 1
    /\ imported' = 0
    /\ skipped' = 0
    /\ paused' = FALSE
    /\ pending' = {}
    /\ filtered' = {}
    /\ failedWrites' = {}
    /\ thrown' = "none"
    /\ resolvedWith' = <<>>
    /\ UNCHANGED <<committed, schemaCommitted, source, fileSize, top, finished>>
    /\ UNCHANGED ruleVars

ImportNext ==
    \/ ImportConnect
    \/ ImportInitializeSchema
    \/ ImportChoose
    \/ LoadAllRecord
    \/ LoadAllDone
    \/ StreamEmitData
    \/ StreamWriteSettled
    \/ StreamEnd
    \/ StreamError
    \/ ImportClose
    \/ ImportAgain

\* One run of importCardsFromJson, the engine failing any call on the store.
SpecImport == ImportInit /\ [][ImportNext]_vars

\* ------------------------------------------------------------- the rules

Basic        == <<"b","a","s","i","c">>
Land         == <<"l","a","n","d">>
Legendary    == <<"l","e","g","e","n","d","a","r","y">>
Creature     == <<"c","r","e","a","t","u","r","e">>
Planeswalker == <<"p","l","a","n","e","s","w","a","l","k","e","r">>

\* const multipleAllowed
multipleAllowed ==
    {<<"r","e","l","e","n","t","l","e","s","s"," ","r","a","t","s">>,
     <<"r","a","t"," ","c","o","l","o","n","y">>,
     <<"p","e","r","s","i","s","t","e","n","t"," ","p","e","t","i","t","i","o","n","e","r","s">>,
     <<"s","h","a","d","o","w","b","o","r","n"," ","a","p","o","s","t","l","e">>,
     <<"t","h","r","u","m","m","i","n","g"," ","s","t","o","n","e">>}

isBasicLand(card) ==
    IF Falsy(card, "type_line") THEN FALSE
    ELSE LET typeLine == toLowerCase(card.type_line)
         IN includes(typeLine, Basic) /\ includes(typeLine, Land)

allowsMultipleCopies(card) == toLowerCase(card.name) \in multipleAllowed

\* isLegalCommander that asks for a legendary card of any type.
isLegalCommander_anyLegendary(card) ==
    IF Falsy(card, "type_line") THEN FALSE
    ELSE includes(toLowerCase(card.type_line), Legendary)

isLegalCommander(card) ==
    IF Falsy(card, "type_line") THEN FALSE
    ELSE LET typeLine == toLowerCase(card.type_line)
             isLegendary == includes(typeLine, Legendary)
             isCreature == includes(typeLine, Creature)
             isPlaneswalker == includes(typeLine, Planeswalker)
         IN isLegendary /\ (isCreature \/ isPlaneswalker)

\* obj[key] of an object given as <<key, value>> pairs: <<value>>, or <<>>
\* when undefined.
Property(obj, key) ==
    LET Named(kv) == kv[1] = key
        found == SelectSeq(obj, Named)
    IN IF found = <<>> THEN <<>> ELSE <<found[Len(found)][2]>>

\* EDH decks must contain exactly 100 cards
DeckSize == 100

RECURSIVE reduceSum(_, _, _)
\* Object.values(cardCounts).reduce((sum, count) => sum + count, 0)
reduceSum(counts, i, sum) ==
    IF i > Len(counts) THEN sum
    ELSE reduceSum(counts, i + 1, sum + counts[i][2])

\* The rule with `>` for `!==`: decks that are too small pass.
deck_size_tooManyOnly(counts) ==
    LET totalCards == reduceSum(counts, 1, 0)
    IN IF totalCards > DeckSize
       THEN << [ruleId |-> "deck_size", ruleName |-> "Deck Size",
                message |-> [text |-> "Deck must contain exactly 100 cards. Found",
                             found |-> totalCards],
                severity |-> "error"] >>
       ELSE <<>>

\* The check of the rule deck_size.
deck_size(counts) ==
    LET totalCards == reduceSum(counts, 1, 0)
    IN IF totalCards # DeckSize
       THEN << [ruleId |-> "deck_size", ruleName |-> "Deck Size",
                message |-> [text |-> "Deck must contain exactly 100 cards. Found",
                             found |-> totalCards],
                severity |-> "error"] >>
       ELSE <<>>

RECURSIVE singletonLoop(_, _, _, _, _)
\* The loop of the rule singleton over Object.entries(cardCounts), from
\* entry i on; `table` is what the lookups see and `db` whether cardDb is
\* given.
singletonLoop(counts, i, table, withDb, found) ==
    IF i > Len(counts) THEN found
    ELSE LET cardName == counts[i][1]
             count == counts[i][2]
             card == IF withDb THEN getCardValue(table, cardName) ELSE <<>>
             allowMultiple ==
                 IF card # <<>>
                 THEN isBasicLand(card[1]) \/ allowsMultipleCopies(card[1])
                 ELSE FALSE
         IN singletonLoop(counts, i + 1, table, withDb,
                IF count > 1 /\ ~allowMultiple
                THEN Append(found,
                        [ruleId |-> "singleton", ruleName |-> "Singleton Rule",
                         message |-> [text |-> "copies found, only 1 copy allowed",
                                      copies |-> count, of |-> cardName],
                         severity |-> "error",
                         affectedCards |-> <<cardName>>])
                ELSE found)

\* The rule that takes a card it cannot look up for an exempt one.
singleton_absentExempt(counts, table, withDb) ==
    LET Known(entry) == withDb /\ getCardValue(table, entry[1]) # <<>>
    IN singletonLoop(SelectSeq(counts, Known), 1, table, withDb, <<>>)

\* The check of the rule singleton.
singleton(counts, table, withDb) == singletonLoop(counts, 1, table, withDb, <<>>)

\* The check of the rule commander_check.
commander_check(counts, table, withDb) ==
    IF ~withDb
    THEN << [ruleId |-> "commander_check", ruleName |-> "Commander Required",
             message |-> [text |-> "Cannot verify commander without card database."],
             severity |-> "warning"] >>
    ELSE LET possibleCommanders ==
                 {i \in 1..Len(counts) :
                     LET card == getCardValue(table, counts[i][1])
                     IN card # <<>> /\ isLegalCommander(card[1])}
         IN IF possibleCommanders = {}
            THEN << [ruleId |-> "commander_check", ruleName |-> "Commander Required",
                     message |-> [text |-> "No valid commander found. Deck must contain a legendary creature or planeswalker."],
                     severity |-> "error"] >>
            ELSE <<>>

RECURSIVE legalityLoop_notLegal(_, _, _, _)
\* The loop that reports every card whose commander entry is not "legal".
legalityLoop_notLegal(counts, i, table, found) ==
    IF i > Len(counts) THEN found
    ELSE LET cardName == counts[i][1]
             card == getCardValue(table, cardName)
             banned ==
                 /\ card # <<>>
                 /\ Has(card[1], "legalities")
                 /\ Property(card[1].legalities, "commander") # <<"legal">>
         IN legalityLoop_notLegal(counts, i + 1, table,
                IF banned
                THEN Append(found,
                        [ruleId |-> "format_legality", ruleName |-> "Format Legality",
                         message |-> [text |-> "is banned in Commander format.",
                                      banned |-> cardName],
                         severity |-> "error",
                         affectedCards |-> <<cardName>>])
                ELSE found)

RECURSIVE legalityLoop(_, _, _, _)
\* The loop of the rule format_legality over Object.keys(cardCounts).
legalityLoop(counts, i, table, found) ==
    IF i > Len(counts) THEN found
    ELSE LET cardName == counts[i][1]
             card == getCardValue(table, cardName)
             banned ==
                 /\ card # <<>>
                 /\ Has(card[1], "legalities")
                 /\ Property(card[1].legalities, "commander") = <<"banned">>
         IN legalityLoop(counts, i + 1, table,
                IF banned
                THEN Append(found,
                        [ruleId |-> "format_legality", ruleName |-> "Format Legality",
                         message |-> [text |-> "is banned in Commander format.",
                                      banned |-> cardName],
                         severity |-> "error",
                         affectedCards |-> <<cardName>>])
                ELSE found)

\* The rule that, handed no CardDatabase, reports nothing.
format_legality_silent(counts, table, withDb) ==
    IF ~withDb THEN <<>> ELSE legalityLoop(counts, 1, table, <<>>)

\* The check of the rule format_legality.
format_legality(counts, table, withDb) ==
    IF ~withDb
    THEN << [ruleId |-> "format_legality", ruleName |-> "Format Legality",
             message |-> [text |-> "Cannot verify format legality without card database."],
             severity |-> "warning"] >>
    ELSE legalityLoop(counts, 1, table, <<>>)

\* The ids of EDH_RULES, in its order.
EDH_RULES == <<"deck_size", "singleton", "commander_check", "format_legality">>

\* rule.check(cardCounts, cardDb) of the rule `id`.
check(id, counts, table, withDb) ==
    CASE id = "deck_size" -> deck_size(counts)
      [] id = "singleton" -> singleton(counts, table, withDb)
      [] id = "commander_check" -> commander_check(counts, table, withDb)
      [] id = "format_legality" -> format_legality(counts, table, withDb)

\* Whether the check of a rule calls cardDb.getCard for these counts.
looksUp(id, counts, withDb) ==
    /\ withDb
    /\ CASE id = "deck_size" -> FALSE
         [] id = "singleton" -> \E i \in 1..Len(counts) : counts[i][2] > 1
         [] OTHER -> counts # <<>>

\* One rule of EDH_RULES is checked, once, on the card counts; a getCard that
\* the engine fails rejects the check.
ruleCheck(id, err) ==
    /\ rule = "none"
    /\ err => looksUp(id, cardCounts, cardDb)
    /\ rule' = id
    /\ violations' = IF err THEN <<>> ELSE check(id, cardCounts, cards, cardDb)
    /\ outcome' = IF err THEN "getCard error" ELSE "returned"
    /\ UNCHANGED <<cardCounts, cardDb, deckVars>>
    /\ UNCHANGED <<storeVars, last>>

\* ---------------------------------------------------- the rules at work

Forest    == <<"F","o","r","e","s","t">>
RatColony == <<"R","a","t"," ","C","o","l","o","n","y">>
Jace      == <<"J","a","c","e">>
Mox       == <<"M","o","x">>

BasicLand == <<"B","a","s","i","c"," ","L","a","n","d">>
LegendaryPlaneswalker == <<"L","e","g","e","n","d","a","r","y"," ","P","l","a","n","e","s","w","a","l","k","e","r">>
LegendaryArtifact == <<"L","e","g","e","n","d","a","r","y"," ","A","r","t","i","f","a","c","t">>

CardForest ==
    [name |-> Forest, type_line |-> BasicLand, colors |-> <<>>,
     color_identity |-> <<"G">>, rarity |-> "common",
     legalities |-> << <<"commander", "legal">> >>]

CardRatColony ==
    [name |-> RatColony, type_line |-> Creature, colors |-> <<"B">>,
     color_identity |-> <<"B">>, rarity |-> "uncommon",
     legalities |-> << <<"commander", "legal">> >>, mana_cost |-> "{1}{B}", cmc |-> 2]

CardJace ==
    [name |-> Jace, type_line |-> LegendaryPlaneswalker, colors |-> <<"U">>,
     color_identity |-> <<"U">>, rarity |-> "mythic",
     legalities |-> << <<"vintage", "legal">> >>]

CardMox ==
    [name |-> Mox, type_line |-> LegendaryArtifact, colors |-> <<>>,
     color_identity |-> <<>>, rarity |-> "rare",
     legalities |-> << <<"commander", "not_legal">> >>]

RECURSIVE insertAll(_, _, _)
\* The table after insertCard of the records i.. of `records`, in order.
insertAll(records, i, table) ==
    IF i > Len(records) THEN table
    ELSE insertAll(records, i + 1, InsertOrReplace(table, insertCardValues(records[i])))

\* The catalogs the rules look cards up in: none imported, some imported.
Catalogs ==
    {<<>>,
     insertAll(<<CardForest, CardRatColony, CardOptLower, SrcLegend, CardJace,
                 CardMox>>, 1, <<>>)}

\* The names of the decks, as countCards has them: in lower case.
DeckNames ==
    {toLowerCase(Forest), toLowerCase(RatColony), optLow, toLowerCase(Ox),
     toLowerCase(Jace), toLowerCase(Mox), <<"z","z">>}

\* The numbers of copies.
Counts == {1, 2, 99}

\* The card counts of the decks: up to MaxDeck names, each once.
Decks ==
    {d \in SeqsUpTo(DeckNames \X Counts, MaxDeck) :
        \A i, j \in 1..Len(d) : i # j => d[i][1] # d[j][1]}

\* A rule is about to be checked on the card counts of a deck, with the
\* CardDatabase of a catalog or with none; a caller may hand the check a
\* third argument, which (cardCounts, cardDb) => ... does not take.
RulesInit ==
    /\ cardCounts \in Decks
    /\ cardDb \in BOOLEAN
    /\ cards \in (IF cardDb THEN Catalogs ELSE {<<>>})
    /\ committed = cards
    /\ db = (IF cardDb THEN "open" ELSE "null")
    /\ schema = cardDb
    /\ schemaCommitted = cardDb
    /\ inTx = FALSE
    /\ last = Settled("new", <<>>, NoName, "none", "resolved", <<>>, 0)
    /\ rule = "none"
    /\ violations = <<>>
    /\ outcome = "none"
    /\ deckList = <<>>
    /\ deckLength = 0
    /\ isValid = FALSE
    /\ isPauper \in BOOLEAN
    /\ added = 0
    /\ pc = "idle"
    /\ source = <<>>
    /\ fileSize = 0
    /\ resolvedWith = <<>>
    /\ next = 1
    /\ imported = 0
    /\ skipped = 0
    /\ paused = FALSE
    /\ pending = {}
    /\ filtered = {}
    /\ failedWrites = {}
    /\ thrown = "none"
    /\ top = "array"
    /\ finished = <<>>

CheckDeckSize == ruleCheck("deck_size", FALSE) /\ UNCHANGED importVars

CheckSingleton ==
    (\E err \in BOOLEAN : ruleCheck("singleton", err)) /\ UNCHANGED importVars

CheckCommander ==
    (\E err \in BOOLEAN : ruleCheck("commander_check", err)) /\ UNCHANGED importVars

CheckFormatLegality ==
    (\E err \in BOOLEAN : ruleCheck("format_legality", err)) /\ UNCHANGED importVars

RulesNext ==
    \/ CheckDeckSize
    \/ CheckSingleton
    \/ CheckCommander
    \/ CheckFormatLegality

\* A rule of EDH_RULES checked on the card counts of a deck.
SpecRules == RulesInit /\ [][RulesNext]_vars

\* ------------------------------------------------ parseDeck, countCards

\* The white space that String.prototype.trim strips, as far as deck texts
\* hold it.
WhiteSpace == {" ", "\t", "\r", "\n"}

RECURSIVE trimStart(_)
trimStart(s) ==
    IF s # <<>> /\ Head(s) \in WhiteSpace THEN trimStart(Tail(s)) ELSE s

RECURSIVE trimEnd(_)
trimEnd(s) ==
    IF s # <<>> /\ s[Len(s)] \in WhiteSpace
    THEN trimEnd(SubSeq(s, 1, Len(s) - 1))
    ELSE s

\* s.trim()
trim(s) == trimEnd(trimStart(s))

\* s.startsWith(prefix)
startsWith(s, prefix) ==
    Len(s) >= Len(prefix) /\ SubSeq(s, 1, Len(prefix)) = prefix

RECURSIVE splitFrom(_, _, _, _)
\* s.split(sep) for a separator of one character: `part` is the part being
\* read, `parts` the parts read so far.
splitFrom(s, sep, part, parts) ==
    IF s = <<>> THEN Append(parts, part)
    ELSE IF Head(s) = sep THEN splitFrom(Tail(s), sep, <<>>, Append(parts, part))
    ELSE splitFrom(Tail(s), sep, Append(part, Head(s)), parts)

split(s, sep) == splitFrom(s, sep, <<>>, <<>>)

RECURSIVE join(_, _)
\* parts.join(sep)
join(parts, sep) ==
    IF parts = <<>> THEN <<>>
    ELSE IF Len(parts) = 1 THEN parts[1]
    ELSE parts[1] \o <<sep>> \o join(Tail(parts), sep)

DecimalDigits == <<"0", "1", "2", "3", "4", "5", "6", "7", "8", "9">>

digitValue(c) == (CHOOSE d \in 1..Len(DecimalDigits) : DecimalDigits[d] = c) - 1

isDigit(c) == \E d \in 1..Len(DecimalDigits) : DecimalDigits[d] = c

RECURSIVE parseDigits(_, _)
\* The value of the longest run of digits that s starts with, after `value`.
parseDigits(s, value) ==
    IF s # <<>> /\ isDigit(Head(s))
    THEN parseDigits(Tail(s), 10 * value + digitValue(Head(s)))
    ELSE value

\* parseInt(s, 10): <<n>>, or <<>> for NaN.  Leading white space is skipped,
\* a sign is read, then the digits up to the first character that is none.
parseInt(s) ==
    LET t == trimStart(s)
        signed == t # <<>> /\ Head(t) \in {"-", "+"}
        u == IF signed THEN Tail(t) ELSE t
    IN IF u = <<>> \/ ~isDigit(Head(u)) THEN <<>>
       ELSE IF signed /\ Head(t) = "-" THEN << 0 - parseDigits(u, 0) >>
       ELSE << parseDigits(u, 0) >>

\* for (let i = 0; i < count; i++) deck.push(cardName)
push(deck, cardName, count) ==
    IF count <= 0 THEN deck ELSE deck \o [i \in 1..count |-> cardName]

\* One turn of the loop of parseDeck with every line taken for one card
\* (the quantity prefix is never read).
parseLine_noQuantity(deck, line) ==
    IF trim(line) = <<>> \/ startsWith(trim(line), <<"/", "/">>)
          \/ startsWith(trim(line), <<"#">>)
    THEN deck
    ELSE Append(deck, trim(line))

\* One turn of the loop of parseDeck: what the line adds to the deck.
parseLine(deck, line) ==
    IF trim(line) = <<>> \/ startsWith(trim(line), <<"/", "/">>)
          \/ startsWith(trim(line), <<"#">>)
    THEN deck
    ELSE LET parts == split(trim(line), " ")
             count == parseInt(parts[1])
         IN IF Len(parts) > 1 /\ count # <<>>
            THEN push(deck, trim(join(Tail(parts), " ")), count[1])
            ELSE Append(deck, trim(line))

RECURSIVE parseLines(_, _)
parseLines(deck, lines) ==
    IF lines = <<>> THEN deck
    ELSE parseLines(parseLine(deck, Head(lines)), Tail(lines))

\* parseDeck(deckString): the names of the cards of the deck, one per copy.
parseDeck(deckString) == parseLines(<<>>, split(deckString, "\n"))

\* cardCounts[normalizedCard] = (cardCounts[normalizedCard] || 0) + 1 on
\* the object given as <<name, count>> pairs in insertion order.
countCard(counts, normalizedCard) ==
    IF \E i \in 1..Len(counts) : counts[i][1] = normalizedCard
    THEN LET i == CHOOSE k \in 1..Len(counts) : counts[k][1] = normalizedCard
         IN [counts EXCEPT ![i] = <<normalizedCard, counts[i][2] + 1>>]
    ELSE Append(counts, <<normalizedCard, 1>>)

RECURSIVE countFrom_caseSensitive(_, _, _, _)
\* The loop of countCards keyed by the names as written (toLowerCase left
\* out).
countFrom_caseSensitive(counts, deck, from, to) ==
    IF from > to THEN counts
    ELSE IF from = to THEN countCard(counts, deck[from])
    ELSE LET first == countFrom_caseSensitive(counts, deck, from, (from + to) \div 2)
         IN IF Len(first) >= 0
            THEN countFrom_caseSensitive(first, deck, ((from + to) \div 2) + 1, to)
            ELSE first

RECURSIVE countFrom(_, _, _, _)
\* The loop of countCards, for (const card of deck), over the cards
\* deck[from..to] in their order: the first half of them, then the rest.
\* (Len(first) >= 0 holds of every sequence; it makes TLC compute the counts
\* of the first half before it turns to the rest.)
countFrom(counts, deck, from, to) ==
    IF from > to THEN counts
    ELSE IF from = to THEN countCard(counts, toLowerCase(deck[from]))
    ELSE LET first == countFrom(counts, deck, from, (from + to) \div 2)
         IN IF Len(first) >= 0
            THEN countFrom(first, deck, ((from + to) \div 2) + 1, to)
            ELSE first

\* countCards(deck): the counts of the lower-cased names.
countCards(deck) == countFrom(<<>>, deck, 1, Len(deck))

\* --------------------------------------- loadCardDatabase, validateEdHDeck

\* What is left alone by a validation run: the state of the import run, but
\* for pc (where the validation run is) and thrown (the error that the catch
\* block of loadCardDatabase caught and logged).
runVars == <<source, fileSize, resolvedWith, next, imported, skipped, paused, pending,
             filtered, failedWrites, top, finished>>

\* The message of the Error that validateEdHDeck throws, up to its first
\* sentence.
Required == "Card database is required"

\* loadCardDatabase returned null and validateEdHDeck threw: if (!cardDb)
\* throw new Error('Card database is required for validation. ...').
throwRequired ==
    /\ pc' = "ended"
    /\ outcome' = Required
    /\ UNCHANGED <<cardCounts, cardDb, rule, violations, deckVars>>

\* validateEdHDeck up to its first await: the deck is parsed and counted,
\* then await db.connect() in loadCardDatabase; an error goes to its catch
\* block, which logs it and returns null.
loadConnect(err) ==
    /\ pc = "validate"
    /\ cardCounts' = countCards(parseDeck(deckList))
    /\ deckLength' = Len(parseDeck(deckList))
    /\ connect(err)
    /\ IF err
       THEN /\ thrown' = "connect"
            /\ pc' = "ended"
            /\ outcome' = Required
       ELSE /\ pc' = "count"
            /\ UNCHANGED <<thrown, outcome>>
    /\ UNCHANGED <<cardDb, rule, violations, deckList, isValid, isPauper, added>>

\* await db.getCardCount() with every count taken for a loaded catalog
\* (if (cardCount === 0) left out).
loadGetCardCount_anyCount(err) ==
    /\ pc = "count"
    /\ db # "null"
    /\ getCardCount(err)
    /\ IF last'.result # "resolved"
       THEN thrown' = "getCardCount" /\ throwRequired
       ELSE /\ pc' = "rules"
            /\ cardDb' = TRUE
            /\ UNCHANGED <<thrown, outcome, cardCounts, rule, violations, deckVars>>

\* await db.getCardCount() in loadCardDatabase: an error goes to the catch
\* block; a count of 0 goes on to close the store; any other count returns
\* the CardDatabase to validateEdHDeck.
loadGetCardCount(err) ==
    /\ pc = "count"
    /\ db # "null"
    /\ getCardCount(err)
    /\ IF last'.result # "resolved"
       THEN thrown' = "getCardCount" /\ throwRequired
       ELSE /\ pc' = IF last'.count = 0 THEN "empty" ELSE "rules"
            /\ cardDb' = (last'.count # 0)
            /\ UNCHANGED <<thrown, outcome, cardCounts, rule, violations, deckVars>>

\* await db.close(); return null, of the empty catalog; an error of close
\* goes to the catch block, which returns null as well.
loadClose(err) ==
    /\ pc = "empty"
    /\ closeRun(err)
    /\ thrown' = IF last'.result # "resolved" THEN "close" ELSE "none"
    /\ throwRequired

\* The place in EDH_RULES of the rule that validateEdHDeck checks next.
nextRule ==
    IF rule = "none" THEN 1
    ELSE 1 + CHOOSE i \in 1..Len(EDH_RULES) : EDH_RULES[i] = rule

\* violations.filter(v => v.severity === 'error').length === 0
noErrors(vs) ==
    LET error(v) == v.severity = "error"
    IN Len(SelectSeq(vs, error)) = 0

\* The turn of the loop that keeps the violations of the rule alone
\* (violations = ruleViolations for violations.concat(ruleViolations)).
validateRule_overwrite(err) ==
    /\ pc = "rules"
    /\ nextRule <= Len(EDH_RULES)
    /\ LET id == EDH_RULES[nextRule]
       IN /\ err => looksUp(id, cardCounts, cardDb)
          /\ rule' = id
          /\ violations' = IF err THEN violations
                           ELSE check(id, cardCounts, cards, cardDb)
          /\ outcome' = IF err THEN "getCard error"
                        ELSE IF nextRule = Len(EDH_RULES) THEN "returned"
                        ELSE outcome
          /\ isValid' = IF ~err /\ nextRule = Len(EDH_RULES)
                        THEN noErrors(violations')
                        ELSE isValid
          /\ pc' = IF err \/ nextRule = Len(EDH_RULES) THEN "ended" ELSE pc
    /\ UNCHANGED <<cardCounts, cardDb, thrown, deckList, deckLength, isPauper, added>>
    /\ UNCHANGED <<storeVars, last>>

\* One turn of for (const rule of EDH_RULES) in validateEdHDeck: the check
\* is awaited and its violations are concatenated; a getCard that the engine
\* fails rejects validateEdHDeck with that error; after the last rule
\* isValid is computed and the result is returned.
validateRule(err) ==
    /\ pc = "rules"
    /\ nextRule <= Len(EDH_RULES)
    /\ LET id == EDH_RULES[nextRule]
       IN /\ err => looksUp(id, cardCounts, cardDb)
          /\ rule' = id
          /\ violations' = IF err THEN violations
                           ELSE violations \o check(id, cardCounts, cards, cardDb)
          /\ outcome' = IF err THEN "getCard error"
                        ELSE IF nextRule = Len(EDH_RULES) THEN "returned"
                        ELSE outcome
          /\ isValid' = IF ~err /\ nextRule = Len(EDH_RULES)
                        THEN noErrors(violations')
                        ELSE isValid
          /\ pc' = IF err \/ nextRule = Len(EDH_RULES) THEN "ended" ELSE pc
    /\ UNCHANGED <<cardCounts, cardDb, thrown, deckList, deckLength, isPauper, added>>
    /\ UNCHANGED <<storeVars, last>>

\* runEdHValidation when its await validateEdHDeck(deckList) is rejected: the
\* call stands before the try block, so runEdHValidation is rejected with
\* that error and its finally block does not run.
runRejected ==
    /\ pc = "ended"
    /\ outcome # "returned"
    /\ pc' = "settled"
    /\ UNCHANGED <<thrown, ruleVars, storeVars, last>>

\* The try block of runEdHValidation on the result of validateEdHDeck: the
\* report, with a getCard for each name of the deck (Commander Analysis); a
\* getCard that the engine fails ends the block with that error.
runReport(err) ==
    /\ pc = "ended"
    /\ outcome = "returned"
    /\ err => cardCounts # <<>>
    /\ thrown' = IF err THEN "getCard" ELSE thrown
    /\ pc' = "closing"
    /\ UNCHANGED <<ruleVars, storeVars, last>>

\* finally { if (result.cardDb) await result.cardDb.close(); }, after which
\* runEdHValidation settles.
runClose(err) ==
    /\ pc = "closing"
    /\ cardDb
    /\ closeRun(err)
    /\ pc' = "settled"
    /\ UNCHANGED <<thrown, ruleVars>>

\* ------------------------------------------------- the validation runs

\* The database files a validation run finds: one without the cards table,
\* one with an empty table, one with a catalog imported.
Files ==
    {[schema |-> FALSE, cards |-> <<>>]} \cup
    {[schema |-> TRUE, cards |-> c] : c \in Catalogs}

RECURSIVE decimal(_)
\* String(n) of a natural number.
decimal(n) ==
    IF n < 10 THEN <<DecimalDigits[n + 1]>>
    ELSE Append(decimal(n \div 10), DecimalDigits[(n % 10) + 1])

\* The deck file of a deck: a line "<count> <name>" for each of its names.
deckText(deck) ==
    join([i \in 1..Len(deck) |-> decimal(deck[i][2]) \o <<" ">> \o deck[i][1]], "\n")

\* Lines of free-form deck files: empty and blank lines, comments, names
\* with and without a quantity, in either case, indented or padded.
DeckLines ==
    {<<>>,
     <<" ", " ">>,
     <<"#", " ", "O", "p", "t">>,
     <<" ", "/", "/", "2", " ", "O", "p", "t">>,
     <<"O", "p", "t">>,
     <<"o", "p", "t", " ">>,
     <<"2", " ", "O", "p", "t">>,
     <<" ", "1", " ", "O", "P", "T">>,
     <<"2", " ", " ", "O", "x">>,
     <<"1", "0", " ", "O", "x">>,
     <<"O", "x", " ", "2">>,
     <<"0", " ", "O", "x">>}

\* The deck texts handed to validateEdHDeck: the deck files of the decks the
\* rules are checked on, and free-form texts of up to MaxLines lines.
DeckLists ==
    {deckText(d) : d \in Decks} \cup
    {join(ls, "\n") : ls \in SeqsUpTo(DeckLines, MaxLines)}

\* validateEdHDeck is called on a deck text; the CardDatabase is yet to be
\* made.
ValidateInit ==
    /\ deckList \in DeckLists
    /\ cardCounts = <<>>
    /\ cardDb = FALSE
    /\ \E f \in Files : committed = f.cards /\ schemaCommitted = f.schema
    /\ cards = committed
    /\ schema = schemaCommitted
    /\ db = "null"
    /\ inTx = FALSE
    /\ last = Settled("new", <<>>, NoName, "none", "resolved", <<>>, 0)
    /\ rule = "none"
    /\ violations = <<>>
    /\ outcome = "none"
    /\ deckLength = 0
    /\ isValid = FALSE
    /\ isPauper = FALSE
    /\ added = 0
    /\ pc = "validate"
    /\ source = <<>>
    /\ fileSize = 0
    /\ resolvedWith = <<>>
    /\ next = 1
    /\ imported = 0
    /\ skipped = 0
    /\ paused = FALSE
    /\ pending = {}
    /\ filtered = {}
    /\ failedWrites = {}
    /\ thrown = "none"
    /\ top = "array"
    /\ finished = <<>>

LoadConnect == (\E err \in BOOLEAN : loadConnect(err)) /\ UNCHANGED runVars

LoadGetCardCount ==
    (\E err \in BOOLEAN : loadGetCardCount(err)) /\ UNCHANGED runVars

LoadClose == (\E err \in BOOLEAN : loadClose(err)) /\ UNCHANGED runVars

ValidateRule == (\E err \in BOOLEAN : validateRule(err)) /\ UNCHANGED runVars

RunRejected == runRejected /\ UNCHANGED runVars

RunReport == (\E err \in BOOLEAN : runReport(err)) /\ UNCHANGED runVars

RunClose == (\E err \in BOOLEAN : runClose(err)) /\ UNCHANGED runVars

ValidateNext ==
    \/ LoadConnect
    \/ LoadGetCardCount
    \/ LoadClose
    \/ ValidateRule
    \/ RunRejected
    \/ RunReport
    \/ RunClose

\* runEdHValidation, and in it validateEdHDeck, on a deck text and a database
\* file.
SpecValidate == ValidateInit /\ [][ValidateNext]_vars

\* ------------------------------------------------------------ addDeckCards

\* cardNames.add(name) on the Set given as the sequence of its elements in
\* insertion order.
add(cardNames, name) ==
    IF \E i \in 1..Len(cardNames) : cardNames[i] = name
    THEN cardNames
    ELSE Append(cardNames, name)

\* One turn of the loop of parseDeckCardNames: the name that the line adds
\* to the set.
addLine(cardNames, line) ==
    IF trim(line) = <<>> \/ startsWith(trim(line), <<"/", "/">>)
          \/ startsWith(trim(line), <<"#">>)
    THEN cardNames
    ELSE LET parts == split(trim(line), " ")
             count == parseInt(parts[1])
         IN IF Len(parts) > 1 /\ count # <<>>
            THEN add(cardNames, toLowerCase(trim(join(Tail(parts), " "))))
            ELSE add(cardNames, toLowerCase(trim(line)))

RECURSIVE addLines(_, _)
addLines(cardNames, lines) ==
    IF lines = <<>> THEN cardNames
    ELSE addLines(addLine(cardNames, Head(lines)), Tail(lines))

\* parseDeckCardNames(deckContent): Array.from(cardNames), the distinct
\* lower-cased names of the deck in the order of their first lines.
parseDeckCardNames(deckContent) == addLines(<<>>, split(deckContent, "\n"))

UpperChar(c) ==
    IF \E i \in 1..Len(LowerChars) : LowerChars[i] = c
    THEN UpperChars[CHOOSE i \in 1..Len(LowerChars) : LowerChars[i] = c]
    ELSE c

basicLands ==
    {<<"p","l","a","i","n","s">>, <<"i","s","l","a","n","d">>,
     <<"s","w","a","m","p">>, <<"m","o","u","n","t","a","i","n">>,
     <<"f","o","r","e","s","t">>}

legendaryCreatures ==
    {<<"m","i","n","t","h","a","r","a",","," ","m","e","r","c","i","l","e","s","s"," ","s","o","u","l">>,
     <<"a","t","r","a","x","a",","," ","p","r","a","e","t","o","r","s","'"," ","v","o","i","c","e">>,
     <<"e","d","g","a","r"," ","m","a","r","k","o","v">>,
     <<"t","h","e"," ","u","r","-","d","r","a","g","o","n">>}

Unknown == <<"U","n","k","n","o","w","n">>

\* The em dash (U+2014) of `Basic Land \u2014 ${...}`, one character.
EmDash == "em dash"

\* createBasicCardData(cardName): the placeholder record of a name.
createBasicCardData(cardName) ==
    LET name == toLowerCase(cardName)
    IN IF name \in basicLands
       THEN [name |-> cardName,
             type_line |-> BasicLand \o <<" ", EmDash, " ">>
                             \o <<UpperChar(Head(cardName))>> \o Tail(cardName),
             colors |-> <<>>, color_identity |-> <<>>, rarity |-> "common",
             legalities |-> << <<"commander", "legal">> >>,
             mana_cost |-> "", cmc |-> 0]
       ELSE IF name \in legendaryCreatures
       THEN [name |-> cardName, type_line |-> LegendaryCreature,
             colors |-> <<"W", "B">>, color_identity |-> <<"W", "B">>,
             rarity |-> "mythic",
             legalities |-> << <<"commander", "legal">> >>,
             mana_cost |-> "{2}{W}{B}", cmc |-> 4]
       ELSE [name |-> cardName, type_line |-> Unknown,
             colors |-> <<>>, color_identity |-> <<>>, rarity |-> "common",
             legalities |-> << <<"commander", "legal">> >>,
             mana_cost |-> "", cmc |-> 0]

\* await db.connect() of addDeckCards
addConnect(err) ==
    /\ pc = "start"
    /\ connect(err)
    /\ pc' = IF err THEN "finally" ELSE "schema"
    /\ thrown' = IF err THEN "connect" ELSE "none"
    /\ UNCHANGED <<next, added, skipped, failedWrites>>

\* await db.initializeSchema(); let added = 0; let skipped = 0;
addInitializeSchema(err) ==
    /\ pc = "schema"
    /\ initializeSchemaRun(err)
    /\ pc' = IF err THEN "finally" ELSE "loop"
    /\ thrown' = IF err THEN "initializeSchema" ELSE "none"
    /\ next' = 1
    /\ added' = 0
    /\ skipped' = 0
    /\ UNCHANGED failedWrites

\* The turn of the loop without its lookup: the placeholder is written
\* whether the name has a record or not.
addCard_noLookup(errGet, errInsert) ==
    /\ pc = "loop"
    /\ next <= Len(parseDeckCardNames(deckList))
    /\ ~errGet
    /\ insertCardRun(createBasicCardData(parseDeckCardNames(deckList)[next]),
                     errInsert)
    /\ added' = IF errInsert THEN added ELSE added + 1
    /\ failedWrites' = IF errInsert THEN failedWrites \cup {next}
                       ELSE failedWrites
    /\ next' = next + 1
    /\ UNCHANGED <<pc, thrown, skipped>>

\* One turn of for (const cardName of cardNames): await db.getCard(cardName),
\* and for a name without a record await db.insertCard of its placeholder;
\* the catch block logs the error of either call and the loop goes on.
addCard(errGet, errInsert) ==
    /\ pc = "loop"
    /\ next <= Len(parseDeckCardNames(deckList))
    /\ LET cardName == parseDeckCardNames(deckList)[next]
           existing == getCardValue(cards, cardName)
       IN /\ errInsert => (~errGet /\ existing = <<>>)
          /\ IF errGet
             THEN /\ getCard(cardName, TRUE)
                  /\ failedWrites' = failedWrites \cup {next}
                  /\ UNCHANGED <<added, skipped>>
             ELSE IF existing # <<>>
             THEN /\ getCard(cardName, FALSE)
                  /\ skipped' = skipped + 1
                  /\ UNCHANGED <<added, failedWrites>>
             ELSE /\ insertCardRun(createBasicCardData(cardName), errInsert)
                  /\ added' = IF errInsert THEN added ELSE added + 1
                  /\ failedWrites' = IF errInsert THEN failedWrites \cup {next}
                                     ELSE failedWrites
                  /\ UNCHANGED skipped
    /\ next' = next + 1
    /\ UNCHANGED <<pc, thrown>>

\* const totalCount = await db.getCardCount() and the report, after the loop;
\* then, or when the try block threw, the finally block.
addCount(err) ==
    /\ pc = "loop"
    /\ next > Len(parseDeckCardNames(deckList))
    /\ getCardCount(err)
    /\ thrown' = IF err THEN "getCardCount" ELSE thrown
    /\ pc' = "finally"
    /\ UNCHANGED <<next, added, skipped, failedWrites>>

\* finally { await db.close() }
addClose(err) ==
    /\ pc = "finally"
    /\ closeRun(err)
    /\ pc' = "done"
    /\ UNCHANGED <<next, added, skipped, failedWrites, thrown>>

\* What a run of addDeckCards leaves alone.
seedFrame ==
    <<source, fileSize, resolvedWith, imported, paused, pending, filtered,
      top, finished, cardCounts, cardDb, rule, violations, outcome,
      deckList, deckLength, isValid, isPauper>>

\* The database files a run of addDeckCards finds: none yet, one with an
\* empty table, catalogs with a record of Opt under one or two spellings.
SeedFiles ==
    {[schema |-> FALSE, cards |-> <<>>],
     [schema |-> TRUE, cards |-> <<>>],
     [schema |-> TRUE, cards |-> insertAll(<<CardOpt>>, 1, <<>>)],
     [schema |-> TRUE, cards |-> insertAll(<<CardOpt, CardOptLower, CardForest>>, 1, <<>>)]}

\* The lines of the deck files: those of the free-form deck texts, a basic
\* land and a legendary creature.
SeedLines ==
    DeckLines \cup
    {<<"f","o","r","e","s","t">>,
     <<"1"," ","E","d","g","a","r"," ","M","a","r","k","o","v">>}

\* addDeckCards is called on a deck file; the CardDatabase is yet to be
\* connected.
SeedInit ==
    /\ deckList \in {join(ls, "\n") : ls \in SeqsUpTo(SeedLines, MaxLines)}
    /\ \E f \in SeedFiles : committed = f.cards /\ schemaCommitted = f.schema
    /\ cards = committed
    /\ schema = schemaCommitted
    /\ db = "null"
    /\ inTx = FALSE
    /\ last = Settled("new", <<>>, NoName, "none", "resolved", <<>>, 0)
    /\ pc = "start"
    /\ next = 1
    /\ added = 0
    /\ skipped = 0
    /\ failedWrites = {}
    /\ thrown = "none"
    /\ source = <<>>
    /\ fileSize = 0
    /\ resolvedWith = <<>>
    /\ imported = 0
    /\ paused = FALSE
    /\ pending = {}
    /\ filtered = {}
    /\ top = "array"
    /\ finished = <<>>
    /\ cardCounts = <<>>
    /\ cardDb = FALSE
    /\ rule = "none"
    /\ violations = <<>>
    /\ outcome = "none"
    /\ deckLength = 0
    /\ isValid = FALSE
    /\ isPauper = FALSE

AddConnect == (\E err \in BOOLEAN : addConnect(err)) /\ UNCHANGED seedFrame

AddInitializeSchema ==
    (\E err \in BOOLEAN : addInitializeSchema(err)) /\ UNCHANGED seedFrame

AddCard ==
    (\E errGet, errInsert \in BOOLEAN : addCard(errGet, errInsert))
        /\ UNCHANGED seedFrame

AddCount == (\E err \in BOOLEAN : addCount(err)) /\ UNCHANGED seedFrame

AddClose == (\E err \in BOOLEAN : addClose(err)) /\ UNCHANGED seedFrame

SeedNext ==
    \/ AddConnect
    \/ AddInitializeSchema
    \/ AddCard
    \/ AddCount
    \/ AddClose

\* One run of addDeckCards on a deck file and a database file, the engine
\* failing any call on the store.
SpecSeed == SeedInit /\ [][SeedNext]_vars

\* ------------------------------------------------- properties of the catalog

\* A record the importer accepts: name and type_line are present and not empty.
Valid(card) == ~Falsy(card, "name") /\ ~Falsy(card, "type_line")

\* The card read back carries every field of the card written, with its value.
Equivalent(read, card) ==
    \A f \in DOMAIN card : f \in DOMAIN read /\ read[f] = card[f]

\* The names of StoreNames that differ from `name` in letter case at most.
CaseVariants(name) == {n \in StoreNames : toLowerCase(n) = toLowerCase(name)}

\* C1: the table never holds two rows whose names are equal once case-folded.
C1_OneRecordPerFoldedName ==
    \A i, j \in 1..Len(cards) :
        (i # j /\ Has(cards[i], "name") /\ Has(cards[j], "name"))
            => toLowerCase(cards[i].name) # toLowerCase(cards[j].name)

\* C2: right after insertCard(card) of a valid card has resolved, getCard of
\* any case variant of card.name resolves a card equivalent to `card`, its
\* colors, color_identity and legalities being the structured values.
C2_UpsertThenGetByName ==
    (last.op = "insertCard" /\ last.result = "resolved" /\ Valid(last.card[1]))
        => \A n \in CaseVariants(last.card[1].name) :
              LET read == getCardValue(cards, n)
              IN read # <<>> /\ Equivalent(read[1], last.card[1])

\* C3: right after insertCardsBatch(batch) has resolved with every statement
\* executed, for every two records of the batch with the same case-folded
\* name, getCard of that name resolves the card written from the last record
\* of the batch with that case-folded name.
C3_LastOfBatchWins ==
    (last.op = "insertCardsBatch" /\ last.result = "resolved" /\ last.fault = "none")
        => \A i, j \in 1..Len(last.card) :
              (i < j /\ toLowerCase(last.card[i].name) = toLowerCase(last.card[j].name))
                => LET folded == toLowerCase(last.card[j].name)
                       lastPos == CHOOSE k \in 1..Len(last.card) :
                                     /\ toLowerCase(last.card[k].name) = folded
                                     /\ \A m \in (k + 1)..Len(last.card) :
                                           toLowerCase(last.card[m].name) # folded
                   IN getCardValue(cards, last.card[j].name)
                          = <<rowToCard(insertCardsBatchValues(last.card[lastPos]))>>

\* C4: insertCardsBatch is atomic.  After a call on an initialized store either every record of the
\* batch can be read or the table is what it was before the call; and when a
\* statement of the batch or its COMMIT fails, the call reports the failure
\* and the table is what it was before the call.
C4_BatchAtomic ==
    [][(last'.op = "insertCardsBatch" /\ schema) =>
          /\ \/ \A i \in 1..Len(last'.card) :
                    getCardValue(cards', last'.card[i].name) # <<>>
             \/ cards' = cards
          /\ last'.fault \in {"statement", "busy", "rollback"}
               => /\ last'.result \in {"error", "crashed"}
                  /\ cards' = cards]_vars

\* C5: insertCard of a card whose name or type_line is empty or missing is
\* rejected and leaves the table unchanged.
C5_InvalidRecordRejected ==
    [][(last'.op = "insertCard" /\ ~Valid(last'.card[1]))
          => (last'.result # "resolved" /\ cards' = cards)]_vars

StoreOps == {"initializeSchema", "getCard", "insertCard", "insertCardsBatch",
             "getCardCount"}

\* C6: once close() has resolved the handle is gone; while it is gone every
\* initializeSchema, getCard, insertCard, insertCardsBatch and getCardCount
\* is rejected with 'Database not connected' and leaves the store as it is;
\* only connect() brings the handle back, and with the handle open (the table
\* created, no engine failure) those calls resolve.
C6_ClosedUntilConnect ==
    [][/\ (last'.op = "close" /\ last'.result = "resolved") => db' = "null"
       /\ (db = "null" /\ last'.op \in StoreOps)
            => (last'.result = "not connected" /\ UNCHANGED storeVars)
       /\ (db = "null" /\ db' # "null") => last'.op = "connect"
       /\ (db = "null" /\ last'.op = "connect" /\ last'.result = "resolved")
            => db' = "open"
       /\ (db = "open" /\ schema /\ ~inTx /\ last'.op \in StoreOps
              /\ last'.fault = "none")
            => last'.result = "resolved"]_vars

\* A call is rejected on a store that was connected, written and then closed.
C6_Witness ==
    /\ db = "null"
    /\ committed # <<>>
    /\ last.op = "insertCardsBatch"
    /\ last.result = "not connected"

\* ------------------------------------------------ properties of the importer

\* The source records the specification has an import skip.
Skippable == {i \in 1..Len(source) : streamSkips(source[i])}

\* The 3-record source of the scenario.
Scenario == <<CardNoType, SrcToken, SrcLegend>>

\* C7: a run in which no write failed reports imported = the number of source
\* records with a name and a type_line whose type_line holds none of "token",
\* "art card", "emblem", and skipped = the number of the others, in either
\* strategy; for the 3-record scenario that is imported 1, skipped 2, and one
\* row in the table.
C7_ImportCounts ==
    (Resolved /\ failedWrites = {})
        => /\ imported = Len(source) - Cardinality(Skippable)
           /\ skipped = Cardinality(Skippable)
           /\ source = Scenario
                => (imported = 1 /\ skipped = 2 /\ Len(committed) = 1)

\* The filter of a strategy.
skips(strategy, card) ==
    IF strategy = "stream" THEN streamSkips(card) ELSE loadAllSkips(card)

RECURSIVE Catalog(_, _, _, _)
\* The table a strategy leaves for the records i.. of a source, no write
\* failing.
Catalog(strategy, src, i, table) ==
    IF i > Len(src) THEN table
    ELSE Catalog(strategy, src, i + 1,
                 IF skips(strategy, src[i]) THEN table
                 ELSE InsertOrReplace(table, insertCardValues(src[i])))

Strategies == {"stream", "loadAll"}

\* C8: both strategies filter alike.  Whichever strategy a run without failed
\* writes took, the records it skipped, its counters and the table it left
\* are those of the load-all strategy and those of the streaming strategy on
\* that source.
C8_SameFilter ==
    (Resolved /\ failedWrites = {})
        => \A strategy \in Strategies :
              LET skip == {i \in 1..Len(source) : skips(strategy, source[i])}
              IN /\ filtered = skip
                 /\ skipped = Cardinality(skip)
                 /\ imported = Len(source) - Cardinality(skip)
                 /\ committed = Catalog(strategy, source, 1, <<>>)

\* C9: in the streaming strategy at most one record is in flight.  While a
\* record's write is outstanding the stream is paused, no record is delivered
\* and none other is written or counted: a step either settles that write or
\* leaves the table and the counters alone; and the stream is resumed only by
\* the step that settles the write of, or skips, the record delivered last.
C9_OneInFlight ==
    [][/\ Cardinality(pending') <= 1
       /\ pending' # {} => paused'
       /\ pending # {}
            => /\ next' = next
               /\ pending' \in {pending, {}}
               /\ pending' = pending
                    => (committed' = committed /\ cards' = cards
                          /\ imported' = imported /\ skipped' = skipped)
               /\ pending' = {}
                    => imported' + skipped' = imported + skipped + 1
       /\ (pending = {} /\ pending' # {}) => pending' = {next}
       /\ (paused /\ ~paused') => (pending # {} /\ pending' = {})]_vars

\* A record's write is outstanding after another record was imported, with
\* more records to come.
C9_Witness ==
    /\ pc = "stream"
    /\ pending # {}
    /\ paused
    /\ imported >= 1
    /\ next <= Len(source)

\* The loop over the source has run.
Ran == pc \in {"finally", "done"} /\ thrown = "none"

\* The records written.
Written == (1..Len(source)) \ (filtered \cup failedWrites)

\* C10: a failed write is isolated, in both strategies.  The step in which a
\* write fails counts the record as skipped and goes on with the loop; and
\* once the run has ended every record of the source has been processed, the
\* counters are those of the records written, filtered and failed, and every
\* record written, before or after a failed one, is in the table.
C10_FailureIsolation ==
    [][/\ failedWrites' # failedWrites
            => /\ skipped' = skipped + 1
               /\ imported' = imported
               /\ pc' = pc
               /\ thrown' = thrown
               /\ committed' = committed
       /\ (pc' = "done" /\ Ran')
            => /\ next' = Len(source) + 1
               /\ pending' = {}
               /\ imported' = Cardinality(Written')
               /\ skipped' = Cardinality(filtered') + Cardinality(failedWrites')
               /\ \A i \in Written' :
                     \E r \in 1..Len(committed') :
                         committed'[r] = insertCardValues(source[i])]_vars

\* A load-all run has ended with a failed write between two records written.
C10_Witness ==
    /\ pc = "done"
    /\ ~useStreaming(fileSize)
    /\ \E i, j, k \in 1..Len(source) :
          /\ i < j /\ j < k
          /\ j \in failedWrites
          /\ {i, k} \subseteq Written
          /\ source[i] # source[k]
    /\ Len(committed) = 2

\* The last record the run wrote whose name is that of record i, letter case
\* apart.
LastWritten(i) ==
    CHOOSE k \in Written :
        /\ toLowerCase(source[k].name) = toLowerCase(source[i].name)
        /\ \A m \in Written :
              toLowerCase(source[m].name) = toLowerCase(source[i].name) => m <= k

\* C11: records are written in source order, so once a run in which the loop
\* ran has ended, getCard of the name of any record written resolves the card
\* of the last record written with that name, letter case apart, in both
\* strategies.
C11_LastInSourceWins ==
    (pc = "done" /\ Ran)
        => \A i \in Written :
              getCardValue(committed, source[i].name)
                  = <<rowToCard(insertCardValues(source[LastWritten(i)]))>>

\* The names a caller looks up after an import.
ImportNames == StoreNames \cup {Elf, Art, Liege}

\* C12: import is idempotent on the catalog.  When the same file has been
\* imported twice into a database that was empty, both runs resolving with no
\* failed write, getCardCount and getCard of every name give after the second
\* run what they gave after the first.
C12_ImportIdempotent ==
    (Len(finished) = 2 /\ finished[1].clean /\ finished[2].clean)
        => /\ Len(finished[2].catalog) = Len(finished[1].catalog)
           /\ \A n \in ImportNames :
                 getCardValue(finished[2].catalog, n)
                     = getCardValue(finished[1].catalog, n)

\* Two clean runs over a source with two records of the same name, letter
\* case apart, and a third record.
C12_Witness ==
    /\ Len(finished) = 2
    /\ finished[1].clean
    /\ finished[2].clean
    /\ Len(finished[2].catalog) = 3
    /\ \E i, j \in 1..Len(source) :
          i # j /\ source[i] # source[j]
              /\ toLowerCase(source[i].name) = toLowerCase(source[j].name)

\* C13: the strategy is chosen by the size of the file: load-all exactly when
\* the size is strictly below the limit, streaming when it is at the limit
\* or above.
C13_StrategyBySize ==
    [][(pc = "stat" /\ pc' # pc)
          => (pc' = "stream" <=> fileSize >= SizeLimit)]_vars

\* C14: a file that holds no array is fatal in both strategies: the run
\* never resolves and never hangs.
C14_MalformedSourceFatal ==
    top # "array" => (~Resolved /\ pc # "hung")

\* ------------------------------------------ properties of validateEdHDeck

\* The store could not be connected, or its cards table holds no row.
NoCatalog == db = "failed" \/ (schemaCommitted /\ committed = <<>>)

C16_StoreErrorUnmodified ==
    /\ (pc = "ended" /\ thrown \in {"connect", "getCardCount"}) => outcome = thrown
    /\ (pc = "done" /\ thrown = "connect") => last.result = "resolved"

\* --------------------------------------------------- properties of the rules

RECURSIVE Total(_)
\* The number of cards of a deck given by its card counts.
Total(counts) == IF counts = <<>> THEN 0 ELSE Head(counts)[2] + Total(Tail(counts))

\* C17: the deck-size rule returns no violation when the counts sum to 100,
\* and otherwise exactly one violation, of severity error, whose message
\* holds the sum.
C17_DeckSizeRule ==
    rule = "deck_size"
        => IF Total(cardCounts) = 100
           THEN violations = <<>>
           ELSE /\ Len(violations) = 1
                /\ violations[1].severity = "error"
                /\ violations[1].message.found = Total(cardCounts)

\* The rule has passed a deck of 100 cards under two names.
C17_Witness ==
    /\ rule = "deck_size"
    /\ Len(cardCounts) = 2
    /\ Total(cardCounts) = 100
    /\ violations = <<>>

\* The record found for a name exempts it from the singleton rule: a basic
\* land, or a card of the allow-list.
ExemptRecord(card) ==
    \/ /\ Has(card, "type_line")
       /\ includes(toLowerCase(card.type_line), Basic)
       /\ includes(toLowerCase(card.type_line), Land)
    \/ toLowerCase(card.name) \in multipleAllowed

\* The entries of the card counts the singleton rule has to report.
Reported(entry) ==
    /\ entry[2] > 1
    /\ \/ ~cardDb
       \/ getCardValue(cards, entry[1]) = <<>>
       \/ ~ExemptRecord(getCardValue(cards, entry[1])[1])

\* C18: the singleton rule returns one error violation, naming the card and
\* its count, for each name with more than one copy whose record is absent,
\* cannot be looked up, or is neither a basic land nor on the allow-list, in
\* the order of the card counts, and nothing else.
C18_SingletonRule ==
    (rule = "singleton" /\ outcome = "returned")
        => LET reported == SelectSeq(cardCounts, Reported)
           IN /\ Len(violations) = Len(reported)
              /\ \A i \in 1..Len(reported) :
                    /\ violations[i].severity = "error"
                    /\ violations[i].affectedCards = <<reported[i][1]>>
                    /\ violations[i].message.of = reported[i][1]
                    /\ violations[i].message.copies = reported[i][2]

\* The rule, with a catalog, has passed two copies of a basic land and
\* reported two copies of another card.
C18_Witness ==
    /\ rule = "singleton"
    /\ outcome = "returned"
    /\ cardDb
    /\ Len(cardCounts) = 2
    /\ \A i \in 1..2 : cardCounts[i][2] = 2
    /\ \E i \in 1..2 : cardCounts[i][1] = toLowerCase(Forest)
    /\ Len(violations) = 1

\* A name of the deck resolves to a legendary creature or planeswalker.
HasCommander ==
    \E i \in 1..Len(cardCounts) :
        LET card == getCardValue(cards, cardCounts[i][1])
        IN /\ card # <<>>
           /\ Has(card[1], "type_line")
           /\ includes(toLowerCase(card[1].type_line), Legendary)
           /\ \/ includes(toLowerCase(card[1].type_line), Creature)
              \/ includes(toLowerCase(card[1].type_line), Planeswalker)

C20_WarningWithoutCatalog ==
    (rule \in {"commander_check", "format_legality"} /\ ~cardDb)
        => /\ outcome = "returned"
           /\ Len(violations) = 1
           /\ violations[1].severity = "warning"
           /\ violations[1].ruleId = rule

\* The format-legality rule has run on a deck of two names with no
\* CardDatabase.
C20_Witness ==
    /\ rule = "format_legality"
    /\ ~cardDb
    /\ Len(cardCounts) = 2
    /\ Len(violations) = 1

\* The record that the lookup finds for an entry of the card counts says
\* that the card is banned in the commander format.
BannedRecord(entry) ==
    LET card == getCardValue(cards, entry[1])
    IN /\ card # <<>>
       /\ Has(card[1], "legalities")
       /\ {kv[2] : kv \in {card[1].legalities[k] : k \in 1..Len(card[1].legalities)}
                      \cap ({"commander"} \X {"banned", "legal", "not_legal", "restricted"})}
              = {"banned"}

\* C21: with a catalog, the format-legality rule returns one error
\* violation, naming the card, for each name of the deck whose record says
\* "banned" for commander, in the order of the card counts, and nothing for
\* the names without a record or with any other commander entry or none.
C21_FormatLegalityRule ==
    (rule = "format_legality" /\ cardDb /\ outcome = "returned")
        => LET banned == SelectSeq(cardCounts, BannedRecord)
           IN /\ Len(violations) = Len(banned)
              /\ \A i \in 1..Len(banned) :
                    /\ violations[i].severity = "error"
                    /\ violations[i].affectedCards = <<banned[i][1]>>
                    /\ violations[i].message.banned = banned[i][1]

\* The rule, with a catalog, has reported the banned card of a deck and
\* passed a card that is not legal.
C21_Witness ==
    /\ rule = "format_legality"
    /\ cardDb
    /\ outcome = "returned"
    /\ Len(cardCounts) = 2
    /\ cardCounts[1][1] = toLowerCase(Mox)
    /\ cardCounts[2][1] = optLow
    /\ Len(violations) = 1
    /\ violations[1].affectedCards = <<optLow>>

\* ------------------------------------------------ properties of the parser

\* The places of the line breaks of the deck text, with the places before
\* its first and after its last character.
Breaks ==
    {0, Len(deckList) + 1} \cup {i \in 1..Len(deckList) : deckList[i] = "\n"}

\* The line of the deck text that starts after the break b.
LineAfter(b) ==
    LET e == CHOOSE n \in Breaks : n > b /\ \A m \in Breaks : m > b => n <= m
    IN SubSeq(deckList, b + 1, e - 1)

\* A line without the blanks around it.
Stripped(line) ==
    LET inked == {i \in 1..Len(line) : line[i] # " "}
    IN IF inked = {} THEN <<>>
       ELSE SubSeq(line, CHOOSE i \in inked : \A j \in inked : i <= j,
                         CHOOSE i \in inked : \A j \in inked : i >= j)

\* The number of digits a text starts with.
LeadingDigits(t) ==
    CHOOSE k \in 0..Len(t) :
        /\ \A i \in 1..k : t[i] \in {"0", "1", "2", "3", "4", "5", "6", "7", "8", "9"}
        /\ k < Len(t) => t[k + 1] \notin {"0", "1", "2", "3", "4", "5", "6", "7", "8", "9"}

RECURSIVE Decimal(_)
\* The number that a text of digits writes.
Decimal(t) ==
    IF t = <<>> THEN 0
    ELSE 10 * Decimal(SubSeq(t, 1, Len(t) - 1))
         + (CASE t[Len(t)] = "0" -> 0 [] t[Len(t)] = "1" -> 1 [] t[Len(t)] = "2" -> 2
              [] t[Len(t)] = "3" -> 3 [] t[Len(t)] = "4" -> 4 [] t[Len(t)] = "5" -> 5
              [] t[Len(t)] = "6" -> 6 [] t[Len(t)] = "7" -> 7 [] t[Len(t)] = "8" -> 8
              [] t[Len(t)] = "9" -> 9)

\* What a line of a deck text means: nothing (a blank line, a comment), or
\* a number of copies of a card, 1 where the line has no quantity prefix.
Meaning(line) ==
    LET t == Stripped(line)
        k == LeadingDigits(t)
    IN IF t = <<>> \/ t[1] = "#" \/ (Len(t) >= 2 /\ t[1] = "/" /\ t[2] = "/")
       THEN [copies |-> 0, name |-> <<>>]
       ELSE IF k > 0 /\ k < Len(t) /\ t[k + 1] = " "
       THEN [copies |-> Decimal(SubSeq(t, 1, k)),
             name |-> toLowerCase(Stripped(SubSeq(t, k + 1, Len(t))))]
       ELSE [copies |-> 1, name |-> toLowerCase(t)]

RECURSIVE SumOver(_, _)
\* The copies that the lines after the breaks of bs give to the card `name`.
SumOver(bs, name) ==
    IF bs = {} THEN 0
    ELSE LET b == CHOOSE x \in bs : TRUE
         IN (IF Meaning(LineAfter(b)).name = name THEN Meaning(LineAfter(b)).copies
             ELSE 0) + SumOver(bs \ {b}, name)

Copies(name) == SumOver(Breaks \ {Len(deckList) + 1}, name)

C22_IsValid ==
    outcome = "returned" =>
        /\ violations = check("deck_size", cardCounts, cards, cardDb)
                        \o check("singleton", cardCounts, cards, cardDb)
                        \o check("commander_check", cardCounts, cards, cardDb)
                        \o check("format_legality", cardCounts, cards, cardDb)
        /\ isValid <=> \A i \in 1..Len(violations) : violations[i].severity # "error"

\* A deck of 99 copies of a basic land and a legendary creature is valid.
C22_Witness ==
    /\ outcome = "returned"
    /\ pc = "ended"
    /\ deckLength = 100
    /\ Len(cardCounts) = 2
    /\ violations = <<>>
    /\ isValid

\* ------------------------------------------ properties of the pauper mode

\* The record that the lookup finds for a name is a creature of rarity
\* uncommon.
UncommonCreature(name) ==
    LET card == getCardValue(cards, name)
    IN /\ card # <<>>
       /\ Has(card[1], "type_line")
       /\ includes(toLowerCase(card[1].type_line), Creature)
       /\ card[1].rarity = "uncommon"

\* C24: handed true as its third argument, the commander rule returns no
\* violation for a deck that holds a creature of rarity uncommon, and
\* otherwise one error whose message is about the uncommon creature (none of
\* the messages of the regular check); a legendary creature of another
\* rarity is no commander.
C24_PauperCommander ==
    (rule = "commander_check" /\ cardDb /\ isPauper /\ outcome = "returned")
        => IF \E i \in 1..Len(cardCounts) : UncommonCreature(cardCounts[i][1])
           THEN violations = <<>>
           ELSE /\ Len(violations) = 1
                /\ violations[1].severity = "error"
                /\ violations[1].message.text \notin
                      {"No valid commander found. Deck must contain a legendary creature or planeswalker.",
                       "Cannot verify commander without card database."}

\* The record that the lookup finds for an entry of the card counts is not
\* of rarity common, and is no uncommon creature either.
NotCommon(entry) ==
    LET card == getCardValue(cards, entry[1])
    IN /\ card # <<>>
       /\ card[1].rarity # "common"
       /\ ~UncommonCreature(entry[1])

\* C25: handed true as its third argument, the format-legality rule returns
\* one error "must be common rarity" for each card of the deck that is not
\* common, but for the uncommon creature, and nothing for a deck of common
\* cards and an uncommon creature.
C25_PauperLegality ==
    (rule = "format_legality" /\ cardDb /\ isPauper /\ outcome = "returned")
        => LET uncommon == SelectSeq(cardCounts, NotCommon)
           IN /\ Len(violations) = Len(uncommon)
              /\ \A i \in 1..Len(uncommon) :
                    /\ violations[i].severity = "error"
                    /\ violations[i].affectedCards = <<uncommon[i][1]>>
                    /\ violations[i].message.text = "must be common rarity"

\* ------------------------------------------- properties of the batch write

\* C26: a batch write that succeeds leaves the table that insertCard of each
\* of its cards, in order, would have left, column for column, image_uris
\* and card_faces included.
C26_BatchIsUpserts ==
    [][(last'.op = "insertCardsBatch" /\ last'.result = "resolved"
            /\ last'.fault = "none" /\ schema)
          => cards' = insertAll(last'.card, 1, cards)]_vars

\* ---------------------------------- the import run's use of the store

\* C27: an import run owns the store and closes it on every outcome.  A
\* record is written only on a store that is connected and has its schema;
\* close() is called only by the finally block, and every run that ends has
\* called it; and once close() has been called no write is in flight.
C27_RunOwnsStore ==
    [][/\ (last' # last /\ last'.op = "insertCard") => (db = "open" /\ schema)
       /\ (pending' # pending /\ pending' # {}) => (db = "open" /\ schema)
       /\ (last' # last /\ last'.op = "close")
            => (pc = "finally" /\ pc' = "done")
       /\ (pc' # pc /\ pc' \in {"done", "crashed", "hung"})
            => (pc = "finally" /\ last'.op = "close")
       /\ pc' = "finally" => pending' = {}]_vars

\* C29: the streaming import of an array resolves with its counts.  The
\* stream ends only when the write of its last record has completed and the
\* handler of that record has resumed it, and the counts the promise
\* resolved with are those of the records imported and skipped.
C29_StreamResolves ==
    [][/\ (pc = "stream" /\ pc' = "finally" /\ top = "array")
            => (pending = {} /\ ~paused /\ next > Len(source))
       /\ (pc' = "done" /\ resolvedWith' # <<>>)
            => /\ resolvedWith'[1] = Cardinality(Written')
               /\ resolvedWith'[2]
                     = Cardinality(filtered') + Cardinality(failedWrites')
               /\ resolvedWith'[1] + resolvedWith'[2] = Len(source)]_vars

\* ------------------------------------------ properties of runEdHValidation

\* C28: every connection a validation run opened is closed when the run has
\* ended, whichever way it ended: the store is not left open, unless it is
\* the close() itself that the engine failed.
C28_ConnectionsClosed ==
    pc = "settled"
        => (db # "open" \/ (last.op = "close" /\ last.result # "resolved"))

\* ------------------------------------------------ properties of addDeckCards

\* C30: deck seeding never overwrites catalog data.  A record is written only
\* for a deck name for which getCard finds none, and it is the placeholder
\* of that name; every row of the table stays as it was, in its place; the
\* table grows by as many rows as `added` counts; and once the loop has run
\* and the store is closed, getCard finds a record for every deck name whose
\* lookup and write the engine did not fail.
C30_SeedingKeepsCatalog ==
    [][LET cardNames == parseDeckCardNames(deckList)
       IN /\ (last' # last /\ last'.op = "insertCard")
               => /\ getCardValue(cards, cardNames[next]) = <<>>
                  /\ last'.card = <<createBasicCardData(cardNames[next])>>
          /\ Len(committed') >= Len(committed)
          /\ \A i \in 1..Len(committed) : committed'[i] = committed[i]
          /\ Len(committed') - Len(committed) = added' - added
          /\ (pc' = "done" /\ next' > Len(cardNames))
               => \A i \in 1..Len(cardNames) :
                     i \notin failedWrites'
                         => getCardValue(committed', cardNames[i]) # <<>>]_vars

\* A run has ended that found a record for one name of the deck, under
\* another spelling, and added the placeholder of another to a catalog of
\* three records.
C30_Witness ==
    /\ pc = "done"
    /\ Len(parseDeckCardNames(deckList)) = 2
    /\ skipped = 1
    /\ added = 1
    /\ failedWrites = {}
    /\ Len(committed) = 4
    /\ committed[1].name = Opt
    /\ committed[4].type_line = Unknown

====
